---------------------------- MODULE Spec2Model ----------------------------
(***************************************************************************)
(* A model of komoot-takeout's job engine as it is written in src/app.py   *)
(* (the module the application runs; src/tours.py and src/collections.py   *)
(* are split-out copies that nothing imports).                             *)
(*                                                                         *)
(*   Spec       the shared status dictionary processing_status, the        *)
(*              request handlers that start jobs on it and poll it, and    *)
(*              the background threads of the three job kinds (all tours,  *)
(*              single tour, collection download).  One job runs at a time *)
(*              in Spec: the client starts the next job when the previous  *)
(*              one has ended.                                             *)
(*   SpecRetry  make_request_with_retry, one call after the other.         *)
(*                                                                         *)
(* Granularity: one step is one critical section (`with processing_lock`)  *)
(* together with the thread-local statements that lead to it, or one call  *)
(* of add_log_entry (a critical section of its own), or one resolution of  *)
(* a collaborator call (login, listing, download).  The only statements on *)
(* shared data that the code runs outside a lock, the read and the write   *)
(* of `completed_tours += 1` in the collection workers, are steps of their *)
(* own, and so are the two reads of completed_tours inside the critical    *)
(* section that follows them.                                              *)
(***************************************************************************)
EXTENDS Integers, Sequences, FiniteSets, TLC

(***************************************************************************)
(* Bounds of the model.                                                    *)
(***************************************************************************)
MaxJobs == 2           \* job slots (threads groups alive at the same time)
MaxTours == 3          \* most tours in a listing / in one collection
MaxColls == 2          \* most collections in one collection-download request
MaxCollTours == 2      \* most tours in one collection of such a request
MaxRetriesArg == 4     \* largest max_retries argument tried
MaxIds == 3            \* tour ids a collection page can refer to
MaxRefs == 2           \* tour links on one page
MaxPages == 2          \* max_pages of the discovery (20 in the code)
MaxExpected == 3       \* largest expected_tours_count

(***************************************************************************)
(* Program constants.                                                      *)
(***************************************************************************)
LogCap == 200          \* add_log_entry: trim when len(log) > 200
LogKeep == 100         \* add_log_entry: ... to the last 100 entries
CollectionPool == 3    \* collection_workers = min(3, total_collections)
TourPool == 5          \* tour_workers = min(5, len(tours))

Jobs == 1..MaxJobs
Tours == 1..MaxTours
Colls == 1..MaxColls
ChunkSizes == 0..MaxTours
ChunkStarts == 0..MaxTours

VARIABLES
    processing_status,    \* the module-level status dictionary
    processing_lock,      \* <<0, 0>> when free, else <<job, collection worker>>
    KOMOOTGPX_AVAILABLE,  \* set at import time, never changed
    job,                  \* per job slot: the request's arguments and the
                          \* locals of the handler / background threads
    r_state,              \* make_request_with_retry: the call in progress
    d_state,              \* fetch_all_tours_from_collection: its locals
    collections_status,   \* the module-level status dictionary of the scrapers
    collections_lock,     \* "free", or the thread that holds it
    scraper,              \* scrape_collections_thread: its position and locals
    access,               \* the last access to a status dictionary and the
                          \* lock it was made under
    writer,               \* a thread that only logs: the entries it has
                          \* handed to add_log_entry, per dictionary
    f_state,              \* KomootAdapter.fetch_tour: its locals
    adapter,              \* one KomootAdapter and the workers that share it
    thread                \* the threads of the server seen as lock users:
                          \* their position in their lock operations

\* What the tour jobs and make_request_with_retry never touch.
\* What the jobs, the discovery and the scrapers never touch.
Side == <<writer, f_state, adapter, thread>>

Rest == <<d_state, collections_status, collections_lock, scraper, access, Side>>

vars == <<processing_status, processing_lock, KOMOOTGPX_AVAILABLE, job,
          r_state, d_state, collections_status, collections_lock, scraper,
          access, writer, f_state, adapter, thread>>

(***************************************************************************)
(* Arithmetic helpers.  progress is a Python float; it is kept as a        *)
(* fraction in lowest terms, so that 2/2 and 1.0 are the same value.       *)
(***************************************************************************)
RECURSIVE GCD(_, _)
GCD(a, b) == IF b = 0 THEN a ELSE GCD(b, a % b)

Frac(n, d) == LET g == GCD(n, d) IN <<n \div g, d \div g>>

FracLeq(p, q) == p[1] * q[2] <= q[1] * p[2]

Min(a, b) == IF a < b THEN a ELSE b

RECURSIVE Pow2(_)
Pow2(k) == IF k = 0 THEN 1 ELSE 2 * Pow2(k - 1)

RECURSIVE SumTo(_, _)
SumTo(f, n) == IF n = 0 THEN 0 ELSE f[n] + SumTo(f, n - 1)

(***************************************************************************)
(* The status dictionary.                                                  *)
(***************************************************************************)
IdleStatus ==
    [status |-> "idle", progress |-> Frac(0, 1), tours_found |-> 0,
     tours_completed |-> 0, collections_found |-> 0,
     collections_completed |-> 0, error |-> "None", log |-> <<>>,
     results |-> <<>>, next_chunk |-> 0]

\* Faulty variant: the dictionary is left as it is.
reset_status_keep(status_dict) == status_dict

\* reset_status (app.py 122-133)
reset_status(status_dict) == IdleStatus

Entry(msg, c, t) == [msg |-> msg, unit |-> <<c, t>>]

\* Faulty variant: the oldest entries are kept and the newest dropped.
TrimLog_KeepOldest(log) ==
    IF Len(log) > LogCap THEN SubSeq(log, 1, LogKeep) ELSE log

TrimLog(log) ==
    IF Len(log) > LogCap
    THEN SubSeq(log, Len(log) - LogKeep + 1, Len(log))
    ELSE log

add_log_entry(entry, status_dict) ==
    [status_dict EXCEPT !.log = TrimLog(Append(@, entry))]

NoThread == <<0, 0>>
LockFree == processing_lock = NoThread

(***************************************************************************)
(* Job slots.                                                              *)
(***************************************************************************)
NoJob ==
    [kind |-> "none", pc |-> "none", anonymous |-> FALSE,
     chunk_size |-> 0, chunk_start |-> 0,
     tours |-> 0, end_idx |-> 0, tour_ids |-> {},
     unit |-> [t \in Tours |-> "none"],
     results |-> <<>>, completed_count |-> 0, error_msg |-> "None",
     finished |-> <<>>,   \* history: the units that returned a result, in
                          \* the order their workers returned
     ncolls |-> 0, ntours |-> [c \in Colls |-> 0], total_tours |-> 0,
     cpc |-> [c \in Colls |-> "none"],
     cunit |-> [c \in Colls |-> [t \in Tours |-> "none"]],
     collection_results |-> [c \in Colls |-> <<>>],
     loaded |-> [c \in Colls |-> 0], raised |-> {},
     completed_tours |-> 0, all_results |-> <<>>, completed_collections |-> 0]

Ended(j) == job[j].pc \in {"none", "exited", "aborted"}
Quiescent == \A j \in Jobs : Ended(j)
FreeSlot(j) == Ended(j) /\ \A i \in Jobs : i < j => ~Ended(i)

(***************************************************************************)
(* POST /api/start: start_processing.  The handler validates the request,  *)
(* resets the status under the lock and then goes on in steps of its own   *)
(* (sp_...); it always resets, whatever chunkStart is.  A request that     *)
(* fails validation returns 400 before it touches anything.                *)
(***************************************************************************)
start_processing(j, tour_selection, anonymous, chunk_size, chunk_start) ==
    /\ FreeSlot(j)
    /\ ~(anonymous /\ tour_selection = "all")
    /\ tour_selection = "single" => chunk_size = 0 /\ chunk_start = 0
    /\ LockFree
    /\ processing_status' = reset_status(processing_status)
    /\ job' = [job EXCEPT ![j] =
                 [NoJob EXCEPT !.kind = tour_selection, !.pc = "sp_log",
                               !.anonymous = anonymous,
                               !.chunk_size = chunk_size,
                               !.chunk_start = chunk_start]]
    /\ UNCHANGED <<processing_lock, KOMOOTGPX_AVAILABLE, r_state, Rest>>

\* Every step below leaves these alone.
Frame == UNCHANGED <<processing_lock, KOMOOTGPX_AVAILABLE, r_state, Rest>>

\* add_log_entry(...) by job j's thread at pc `from`, which goes on at `to`.
LogStep(j, from, msg, to) ==
    /\ job[j].pc = from
    /\ LockFree
    /\ processing_status' = add_log_entry(Entry(msg, 0, 0), processing_status)
    /\ job' = [job EXCEPT ![j].pc = to]
    /\ Frame

sp_log(j) ==
    LogStep(j, "sp_log", "Output directory set",
            IF job[j].kind = "single" /\ KOMOOTGPX_AVAILABLE
            THEN "sp_kgpx" ELSE "pt_start")

\* app.py 1101-1105: the handler itself marks the single-tour job running.
sp_kgpx(j) ==
    /\ job[j].pc = "sp_kgpx"
    /\ LockFree
    /\ processing_status' = [processing_status EXCEPT
                               !.status = "running", !.tours_found = 1,
                               !.progress = Frac(1, 10)]
    /\ job' = [job EXCEPT ![j].pc = "sp_kgpx_log"]
    /\ Frame

sp_kgpx_log(j) == LogStep(j, "sp_kgpx_log", "Using KomootGPX", "sp_download")

\* download_tour_using_komootgpx returned a filename.
sp_download_ok(j) ==
    \/ /\ job[j].anonymous
       /\ job[j].pc = "sp_download"
       /\ job' = [job EXCEPT ![j].pc = "sp_result"]
       /\ UNCHANGED processing_status
       /\ Frame
    \/ /\ ~job[j].anonymous
       /\ LogStep(j, "sp_download", "Logging in to get tour details", "sp_login")

\* download_tour_using_komootgpx returned None: fall back to the thread.
sp_download_fail(j) ==
    LogStep(j, "sp_download", "KomootGPX download failed", "pt_start")

sp_login_ok(j) ==
    /\ job[j].pc = "sp_login"
    /\ job' = [job EXCEPT ![j].pc = "sp_result"]
    /\ UNCHANGED processing_status
    /\ Frame

\* adapter.login raises inside the handler: the handler's own except
\* answers 500 and nothing sets the status again.
sp_login_fail(j) ==
    /\ job[j].pc = "sp_login"
    /\ job' = [job EXCEPT ![j].pc = "aborted"]
    /\ UNCHANGED processing_status
    /\ Frame

sp_result(j) ==
    /\ job[j].pc = "sp_result"
    /\ LockFree
    /\ processing_status' = [processing_status EXCEPT
                               !.status = "completed", !.progress = Frac(1, 1),
                               !.tours_completed = 1, !.results = << <<0, 1>> >>]
    /\ job' = [job EXCEPT ![j].pc = "sp_done_log", ![j].results = << <<0, 1>> >>]
    /\ Frame

sp_done_log(j) == LogStep(j, "sp_done_log", "Tour downloaded successfully", "exited")

(***************************************************************************)
(* process_tours, the background thread of /api/start.                     *)
(***************************************************************************)
\* Faulty variant: the thread goes on without marking the status running.
pt_running_skip(j) ==
    /\ job[j].pc = "pt_start"
    /\ job' = [job EXCEPT ![j].pc = IF job[j].anonymous THEN "pt_mkdir"
                                    ELSE "pt_login_log"]
    /\ UNCHANGED processing_status
    /\ Frame

\* processing_status['status'] = 'running' (app.py 1742-1745)
pt_running(j) ==
    /\ job[j].pc = "pt_start"
    /\ LockFree
    /\ processing_status' = [processing_status EXCEPT !.status = "running"]
    /\ job' = [job EXCEPT ![j].pc = IF job[j].anonymous THEN "pt_mkdir"
                                    ELSE "pt_login_log"]
    /\ Frame

pt_login_log(j) == LogStep(j, "pt_login_log", "Logging in to Komoot", "pt_login")

pt_login_ok(j) == LogStep(j, "pt_login", "Logged in", "pt_mkdir")

\* adapter.login raises: the thread's outer except (app.py 2036-2044).
pt_login_fail(j) ==
    /\ job[j].pc = "pt_login"
    /\ job' = [job EXCEPT ![j].pc = "pt_except",
                          ![j].error_msg = "Komoot login failed"]
    /\ UNCHANGED processing_status
    /\ Frame

pt_mkdir(j) == LogStep(j, "pt_mkdir", "Downloading to directory", "pt_select")

pt_select(j) ==
    \/ /\ job[j].kind = "all"
       /\ LogStep(j, "pt_select", "Fetching all tours", "pt_fetch")
    \/ /\ job[j].kind = "single"
       /\ LogStep(j, "pt_select", "Processing single tour", "ps_init")

\* adapter.fetch_tours returned a listing of n tours.
pt_fetch_ok(j, n) ==
    /\ job[j].pc = "pt_fetch"
    /\ LockFree
    /\ processing_status' = [processing_status EXCEPT !.tours_found = n]
    /\ job' = [job EXCEPT ![j].pc = "pt_found_log", ![j].tours = n]
    /\ Frame

pt_fetch_fail(j) ==
    /\ job[j].pc = "pt_fetch"
    /\ job' = [job EXCEPT ![j].pc = "pt_except",
                          ![j].error_msg = "Failed to fetch tours"]
    /\ UNCHANGED processing_status
    /\ Frame

\* Faulty variant: the slice starts one position early.
Slice_Early(start_idx, end_idx) == {t \in Tours : start_idx <= t /\ t <= end_idx}

\* list(tours.keys())[start_idx:end_idx], as positions 1..len(tours).
Slice(start_idx, end_idx) == {t \in Tours : start_idx < t /\ t <= end_idx}

\* Faulty variant: the end index computed from the chunk size alone.
EndIdx_NoStart(chunk_start, chunk_size, n) == Min(chunk_size, n)

\* end_idx = min(start_idx + chunk_size, len(tours))
EndIdx(chunk_start, chunk_size, n) == Min(chunk_start + chunk_size, n)

pt_found_log(j) ==
    /\ job[j].pc = "pt_found_log"
    /\ LockFree
    /\ processing_status' = add_log_entry(Entry("Found tours", 0, 0), processing_status)
    /\ IF job[j].chunk_size > 0
       THEN LET end_idx == EndIdx(job[j].chunk_start, job[j].chunk_size, job[j].tours)
            IN job' = [job EXCEPT ![j].pc = "pt_chunk_log",
                                  ![j].end_idx = end_idx,
                                  ![j].tour_ids = Slice(job[j].chunk_start, end_idx)]
       ELSE job' = [job EXCEPT ![j].pc = "pt_submit",
                               ![j].tour_ids = Slice(0, job[j].tours)]
    /\ Frame

pt_chunk_log(j) == LogStep(j, "pt_chunk_log", "Processing chunk", "pt_chunk_next")

pt_chunk_next(j) ==
    /\ job[j].pc = "pt_chunk_next"
    /\ LockFree
    /\ processing_status' = [processing_status EXCEPT !.next_chunk = job[j].end_idx]
    /\ job' = [job EXCEPT ![j].pc = "pt_submit"]
    /\ Frame

\* executor.submit(process_single_tour, tour_id) for tour_id in tour_ids
pt_submit(j) ==
    /\ job[j].pc = "pt_submit"
    /\ job' = [job EXCEPT ![j].pc = "pt_loop",
                          ![j].unit = [t \in Tours |->
                                         IF t \in job[j].tour_ids THEN "run" ELSE "none"]]
    /\ UNCHANGED processing_status
    /\ Frame

\* process_single_tour returns a result ...
process_single_tour_ok(j, t) ==
    /\ job[j].kind = "all"
    /\ job[j].unit[t] = "run"
    /\ job' = [job EXCEPT ![j].unit[t] = "ok",
                          ![j].finished = Append(@, <<0, t>>)]
    /\ UNCHANGED processing_status
    /\ Frame

\* Faulty variant: the exception is swallowed without a log entry.
process_single_tour_fail_silent(j, t) ==
    /\ job[j].kind = "all"
    /\ job[j].unit[t] = "run"
    /\ job' = [job EXCEPT ![j].unit[t] = "fail"]
    /\ UNCHANGED processing_status
    /\ Frame

\* ... or catches an exception, logs it and returns None.
process_single_tour_fail(j, t) ==
    /\ job[j].kind = "all"
    /\ job[j].unit[t] = "run"
    /\ LockFree
    /\ processing_status' = add_log_entry(Entry("Error processing tour", 0, t),
                                          processing_status)
    /\ job' = [job EXCEPT ![j].unit[t] = "fail"]
    /\ Frame

\* The progress the loop of process_tours writes after a result.
TourProgress(completed_count, n) == Frac(completed_count, n)

\* Whether the as_completed loop counts a finished future.
Counted(result) == result = "ok"

\* as_completed hands over a finished future (app.py 1872-1888).
pt_take(j, t) ==
    /\ job[j].pc = "pt_loop"
    /\ job[j].unit[t] \in {"ok", "fail"}
    /\ IF Counted(job[j].unit[t])
       THEN LET results == IF job[j].unit[t] = "ok"
                           THEN Append(job[j].results, <<0, t>>)
                           ELSE job[j].results
                completed_count == job[j].completed_count + 1
            IN /\ LockFree
               /\ processing_status' =
                    [processing_status EXCEPT
                       !.progress = TourProgress(completed_count,
                                                 Cardinality(job[j].tour_ids)),
                       !.tours_completed = completed_count,
                       !.results = results]
               /\ job' = [job EXCEPT ![j].pc = "pt_loop_log",
                                     ![j].results = results,
                                     ![j].completed_count = completed_count,
                                     ![j].unit[t] = "taken_" \o job[j].unit[t]]
       ELSE /\ job' = [job EXCEPT ![j].unit[t] = "taken_" \o job[j].unit[t]]
            /\ UNCHANGED processing_status
    /\ Frame

pt_loop_log(j) == LogStep(j, "pt_loop_log", "Completed tour", "pt_loop")

AllTaken(j) == \A t \in job[j].tour_ids : job[j].unit[t] \in {"taken_ok", "taken_fail"}

\* Faulty variant: end_idx <= len(tours) in place of end_idx < len(tours).
FinalStatus_Inclusive(chunk_size, end_idx, n) ==
    IF chunk_size > 0 /\ end_idx <= n THEN "chunk_completed" ELSE "completed"

\* The status the all-tours job ends in (app.py 1896-1899).
FinalStatus(chunk_size, end_idx, n) ==
    IF chunk_size > 0 /\ end_idx < n THEN "chunk_completed" ELSE "completed"

pt_final(j) ==
    /\ job[j].pc = "pt_loop"
    /\ AllTaken(j)
    /\ LockFree
    /\ processing_status' =
         [processing_status EXCEPT
            !.results = job[j].results,
            !.status = FinalStatus(job[j].chunk_size, job[j].end_idx, job[j].tours),
            !.progress = Frac(1, 1)]
    /\ job' = [job EXCEPT ![j].pc = "pt_final_log"]
    /\ Frame

pt_final_log(j) == LogStep(j, "pt_final_log", "Processing completed", "exited")

\* The outer except of process_tours (app.py 2036-2044).
pt_except(j) ==
    /\ job[j].pc = "pt_except"
    /\ LockFree
    /\ processing_status' = add_log_entry(Entry("Error", 0, 0), processing_status)
    /\ job' = [job EXCEPT ![j].pc = "pt_except_set"]
    /\ Frame

\* Faulty variant: the except handler leaves the status as it was set at the start.
SetupFailureStatus_Stale == "running"

\* The status a setup failure leaves.
SetupFailureStatus == "error"

pt_except_set(j) ==
    /\ job[j].pc = "pt_except_set"
    /\ LockFree
    /\ processing_status' = [processing_status EXCEPT
                               !.status = SetupFailureStatus,
                               !.error = job[j].error_msg]
    /\ job' = [job EXCEPT ![j].pc = "exited"]
    /\ Frame

(***************************************************************************)
(* process_tours, single tour branch (app.py 1906-2034).                   *)
(***************************************************************************)
\* The progress the thread starts a single-tour download with.
SingleStartProgress == Frac(0, 1)

ps_init(j) ==
    /\ job[j].pc = "ps_init"
    /\ LockFree
    /\ processing_status' = [processing_status EXCEPT
                               !.tours_found = 1, !.tours_completed = 0,
                               !.progress = SingleStartProgress]
    /\ job' = [job EXCEPT ![j].pc = "ps_dl_log"]
    /\ Frame

ps_dl_log(j) ==
    LogStep(j, "ps_dl_log",
            IF KOMOOTGPX_AVAILABLE THEN "Using KomootGPX" ELSE "Using adapter",
            "ps_download")

ps_download_ok(j) ==
    /\ job[j].pc = "ps_download"
    /\ job' = [job EXCEPT ![j].pc = "ps_result"]
    /\ UNCHANGED processing_status
    /\ Frame

ps_download_fail(j) ==
    /\ job[j].pc = "ps_download"
    /\ LockFree
    /\ processing_status' = add_log_entry(Entry("Error processing tour", 0, 1),
                                          processing_status)
    /\ job' = [job EXCEPT ![j].pc = "ps_error_set",
                          ![j].error_msg = "download failed"]
    /\ Frame

ps_result(j) ==
    /\ job[j].pc = "ps_result"
    /\ LockFree
    /\ processing_status' = [processing_status EXCEPT
                               !.results = << <<0, 1>> >>, !.status = "completed",
                               !.progress = Frac(1, 1), !.tours_completed = 1]
    /\ job' = [job EXCEPT ![j].pc = "ps_done_log", ![j].results = << <<0, 1>> >>]
    /\ Frame

ps_done_log(j) == LogStep(j, "ps_done_log", "Processing completed for tour", "exited")

ps_error_set(j) ==
    /\ job[j].pc = "ps_error_set"
    /\ LockFree
    /\ processing_status' = [processing_status EXCEPT
                               !.status = "error", !.error = job[j].error_msg]
    /\ job' = [job EXCEPT ![j].pc = "exited"]
    /\ Frame

(***************************************************************************)
(* GET /api/status: get_status answers the dictionary as it is, read under *)
(* the lock.  A poll changes nothing, so it is no step of the model: it    *)
(* may fall between any two steps, and what it answers is this.            *)
(***************************************************************************)
get_status == processing_status

(***************************************************************************)
(* POST /api/download-collection-tours: download_collection_tours resets   *)
(* the status and starts download_collection_tours_thread.  ntours[c] is   *)
(* len(collection['tours']) of the c-th collection, duplicates removed     *)
(* (app.py 2340-2355); the request carries userId and includeMetadata.     *)
(***************************************************************************)
CollectionInputs == [Colls -> 0..MaxCollTours]

download_collection_tours(j, ncolls, ntours) ==
    /\ FreeSlot(j)
    /\ ncolls >= 1
    /\ \A c \in Colls : c > ncolls => ntours[c] = 0
    /\ LockFree
    /\ processing_status' = reset_status(processing_status)
    /\ job' = [job EXCEPT ![j] =
                 [NoJob EXCEPT !.kind = "collections", !.pc = "ct_start",
                               !.ncolls = ncolls, !.ntours = ntours,
                               !.total_tours = SumTo(ntours, MaxColls)]]
    /\ UNCHANGED <<processing_lock, KOMOOTGPX_AVAILABLE, r_state, Rest>>

(***************************************************************************)
(* download_collection_tours_thread: the coordinating thread.              *)
(***************************************************************************)
ct_running(j) ==
    /\ job[j].pc = "ct_start"
    /\ LockFree
    /\ processing_status' = [processing_status EXCEPT !.status = "running"]
    /\ job' = [job EXCEPT ![j].pc = "ct_count"]
    /\ Frame

\* os.makedirs(output_dir) raises: the thread's outer except.
ct_mkdir_fail(j) ==
    /\ job[j].pc = "ct_count"
    /\ job' = [job EXCEPT ![j].pc = "ct_except",
                          ![j].error_msg = "makedirs failed"]
    /\ UNCHANGED processing_status
    /\ Frame

ct_found(j) ==
    /\ job[j].pc = "ct_count"
    /\ LockFree
    /\ processing_status' = [processing_status EXCEPT
                               !.tours_found = job[j].total_tours]
    /\ job' = [job EXCEPT ![j].pc = "ct_log"]
    /\ Frame

ct_log(j) == LogStep(j, "ct_log", "Starting download", "ct_submit")

\* executor_collections.submit(process_collection, ...) for every collection
ct_submit(j) ==
    /\ job[j].pc = "ct_submit"
    /\ job' = [job EXCEPT ![j].pc = "ct_loop",
                          ![j].cpc = [c \in Colls |->
                                        IF c <= job[j].ncolls THEN "queued" ELSE "none"]]
    /\ UNCHANGED processing_status
    /\ Frame

\* Faulty variant: all_results is assigned the collection's results, not extended.
ct_take_assign(j, c) ==
    /\ job[j].pc = "ct_loop"
    /\ job[j].cpc[c] = "done"
    /\ job' = [job EXCEPT ![j].pc = "ct_loop_log",
                          ![j].cpc[c] = "taken",
                          ![j].all_results = job[j].collection_results[c],
                          ![j].completed_collections = @ + 1]
    /\ UNCHANGED processing_status
    /\ Frame

\* as_completed over the collection futures (app.py 2726-2737).
ct_take(j, c) ==
    /\ job[j].pc = "ct_loop"
    /\ job[j].cpc[c] = "done"
    /\ job' = [job EXCEPT ![j].pc = "ct_loop_log",
                          ![j].cpc[c] = "taken",
                          ![j].all_results = @ \o job[j].collection_results[c],
                          ![j].completed_collections = @ + 1]
    /\ UNCHANGED processing_status
    /\ Frame

ct_loop_log(j) == LogStep(j, "ct_loop_log", "Completed collection", "ct_loop")

ct_final(j) ==
    /\ job[j].pc = "ct_loop"
    /\ \A c \in Colls : c <= job[j].ncolls => job[j].cpc[c] = "taken"
    /\ LockFree
    /\ processing_status' = [processing_status EXCEPT
                               !.results = job[j].all_results,
                               !.status = "completed",
                               !.progress = Frac(1, 1),
                               !.tours_completed = job[j].completed_tours]
    /\ job' = [job EXCEPT ![j].pc = "ct_final_log"]
    /\ Frame

ct_final_log(j) == LogStep(j, "ct_final_log", "Download completed", "exited")

ct_except(j) == LogStep(j, "ct_except", "Error", "ct_except_set")

ct_except_set(j) ==
    /\ job[j].pc = "ct_except_set"
    /\ LockFree
    /\ processing_status' = [processing_status EXCEPT
                               !.status = "error", !.error = job[j].error_msg]
    /\ job' = [job EXCEPT ![j].pc = "exited"]
    /\ Frame

(***************************************************************************)
(* process_collection, one per collection on the outer pool of             *)
(* min(3, total_collections) workers, and process_tour on its inner pool.  *)
(***************************************************************************)
Busy(j) == {c \in Colls : job[j].cpc[c] \in
              {"setup", "raise", "loop", "store", "lock1", "lock2"}}

pc_start(j, c) ==
    /\ job[j].cpc[c] = "queued"
    /\ Cardinality(Busy(j)) < Min(CollectionPool, job[j].ncolls)
    /\ job' = [job EXCEPT ![j].cpc[c] = "setup"]
    /\ UNCHANGED processing_status
    /\ Frame

\* Folders and metadata are written; then the inner pool is created with
\* max_workers = min(5, len(tours)), which raises ValueError for 0.
pc_setup_ok(j, c) ==
    /\ job[j].cpc[c] = "setup"
    /\ LockFree
    /\ processing_status' =
         add_log_entry(Entry("Saved collection metadata", c, 0), processing_status)
    /\ IF Min(TourPool, job[j].ntours[c]) = 0
       THEN job' = [job EXCEPT ![j].cpc[c] = "raise"]
       ELSE job' = [job EXCEPT ![j].cpc[c] = "loop",
                               ![j].cunit[c] = [t \in Tours |->
                                   IF t <= job[j].ntours[c] THEN "run" ELSE "none"]]
    /\ Frame

\* Creating the folders or the index file raises.
pc_setup_fail(j, c) ==
    /\ job[j].cpc[c] = "setup"
    /\ job' = [job EXCEPT ![j].cpc[c] = "raise"]
    /\ UNCHANGED processing_status
    /\ Frame

\* What process_collection's except returns as the collection's results.
FailedCollectionResults(collection_results) == <<>>

\* except Exception in process_collection (app.py 2713-2719).
pc_except(j, c) ==
    /\ job[j].cpc[c] = "raise"
    /\ LockFree
    /\ processing_status' =
         add_log_entry(Entry("Error processing collection", c, 0), processing_status)
    /\ job' = [job EXCEPT ![j].cpc[c] = "done",
                          ![j].raised = @ \cup {c},
                          ![j].collection_results[c] =
                              FailedCollectionResults(job[j].collection_results[c])]
    /\ Frame

process_tour_ok(j, c, t) ==
    /\ job[j].cunit[c][t] = "run"
    /\ job' = [job EXCEPT ![j].cunit[c][t] = "ok",
                          ![j].finished = Append(@, <<c, t>>)]
    /\ UNCHANGED processing_status
    /\ Frame

process_tour_fail(j, c, t) ==
    /\ job[j].cunit[c][t] = "run"
    /\ LockFree
    /\ processing_status' =
         add_log_entry(Entry("Error processing tour", c, t), processing_status)
    /\ job' = [job EXCEPT ![j].cunit[c][t] = "fail"]
    /\ Frame

\* Faulty variant: the result goes straight to the job's shared list.
pc_take_shared(j, c, t) ==
    /\ job[j].cpc[c] = "loop"
    /\ job[j].cunit[c][t] \in {"ok", "fail"}
    /\ IF Counted(job[j].cunit[c][t])
       THEN job' = [job EXCEPT
                      ![j].cpc[c] = "store",
                      ![j].cunit[c][t] = "taken_" \o job[j].cunit[c][t],
                      ![j].all_results =
                          IF job[j].cunit[c][t] = "ok" THEN Append(@, <<c, t>>) ELSE @,
                      ![j].loaded[c] = job[j].completed_tours]
       ELSE job' = [job EXCEPT ![j].cunit[c][t] = "taken_" \o job[j].cunit[c][t]]
    /\ UNCHANGED processing_status
    /\ Frame

\* as_completed over the tour futures; for a result: append it and read
\* completed_tours, the first half of `completed_tours += 1`.
pc_take(j, c, t) ==
    /\ job[j].cpc[c] = "loop"
    /\ job[j].cunit[c][t] \in {"ok", "fail"}
    /\ IF Counted(job[j].cunit[c][t])
       THEN job' = [job EXCEPT
                      ![j].cpc[c] = "store",
                      ![j].cunit[c][t] = "taken_" \o job[j].cunit[c][t],
                      ![j].collection_results[c] =
                          IF job[j].cunit[c][t] = "ok" THEN Append(@, <<c, t>>) ELSE @,
                      ![j].loaded[c] = job[j].completed_tours]
       ELSE job' = [job EXCEPT ![j].cunit[c][t] = "taken_" \o job[j].cunit[c][t]]
    /\ UNCHANGED processing_status
    /\ Frame

\* The second half of `completed_tours += 1`.
pc_store(j, c) ==
    /\ job[j].cpc[c] = "store"
    /\ job' = [job EXCEPT ![j].cpc[c] = "lock1",
                          ![j].completed_tours = job[j].loaded[c] + 1,
                          ![j].loaded[c] = 0]
    /\ UNCHANGED processing_status
    /\ Frame

\* with processing_lock: progress = completed_tours / total_tours
pc_progress(j, c) ==
    /\ job[j].cpc[c] = "lock1"
    /\ LockFree
    /\ processing_lock' = <<j, c>>
    /\ processing_status' = [processing_status EXCEPT
                               !.progress = Frac(job[j].completed_tours,
                                                 job[j].total_tours)]
    /\ job' = [job EXCEPT ![j].cpc[c] = "lock2"]
    /\ UNCHANGED <<KOMOOTGPX_AVAILABLE, r_state, Rest>>

\* ... tours_completed = completed_tours, and the lock is released.
pc_completed(j, c) ==
    /\ job[j].cpc[c] = "lock2"
    /\ processing_lock = <<j, c>>
    /\ processing_lock' = NoThread
    /\ processing_status' = [processing_status EXCEPT
                               !.tours_completed = job[j].completed_tours]
    /\ job' = [job EXCEPT ![j].cpc[c] = "loop"]
    /\ UNCHANGED <<KOMOOTGPX_AVAILABLE, r_state, Rest>>

\* All futures of the collection are consumed: summary files, then return.
pc_csv(j, c) ==
    /\ job[j].cpc[c] = "loop"
    /\ \A t \in Tours : job[j].cunit[c][t] \in {"none", "taken_ok", "taken_fail"}
    /\ LockFree
    /\ processing_status' =
         add_log_entry(Entry("Created CSV summary", c, 0), processing_status)
    /\ job' = [job EXCEPT ![j].cpc[c] = "done"]
    /\ Frame

(***************************************************************************)
(* make_request_with_retry (app.py 268-279).  `outcomes` is what each      *)
(* requests.get did, in order; `sleeps` the arguments of time.sleep.  One  *)
(* call is followed from its start to its return.                          *)
(***************************************************************************)
Responses == {"200", "404", "500"}
NetworkErrors == {"ConnectionError", "Timeout"}
OtherErrors == {"TooManyRedirects"}

RetryIdle ==
    [pc |-> "idle", max_retries |-> 0, attempt |-> 0,
     outcomes |-> <<>>, sleeps |-> <<>>, result |-> "none",
     caller |-> "none", page_tours |-> <<>>]

make_request_with_retry(max_retries) ==
    /\ r_state.pc = "idle"
    /\ r_state' = [RetryIdle EXCEPT !.pc = "for", !.max_retries = max_retries]
    /\ UNCHANGED <<processing_status, processing_lock, KOMOOTGPX_AVAILABLE, job, Rest>>

\* for attempt in range(max_retries): the next attempt, or the end of the
\* loop, after which the function returns None.
r_for ==
    /\ r_state.pc = "for"
    /\ r_state' = IF r_state.attempt < r_state.max_retries
                  THEN [r_state EXCEPT !.pc = "get"]
                  ELSE [r_state EXCEPT !.pc = "returned", !.result = "None"]
    /\ UNCHANGED <<processing_status, processing_lock, KOMOOTGPX_AVAILABLE, job, Rest>>

\* Faulty variant: linear backoff.
SleepTime_Linear(attempt) == 2 * attempt

\* sleep_time = 2 ** attempt
SleepTime(attempt) == Pow2(attempt)

\* if attempt < max_retries - 1: sleep, else: raise
IsLastAttempt(attempt, max_retries) == ~(attempt < max_retries - 1)

\* requests.get answers, or raises.
r_get(outcome) ==
    /\ r_state.pc = "get"
    /\ r_state' =
         LET st == [r_state EXCEPT !.outcomes = Append(@, outcome)]
         IN IF outcome \in Responses
            THEN [st EXCEPT !.pc = "returned", !.result = outcome]
            ELSE IF outcome \in NetworkErrors
                      /\ ~IsLastAttempt(r_state.attempt, r_state.max_retries)
            THEN [st EXCEPT !.pc = "sleep"]
            ELSE [st EXCEPT !.pc = "raised", !.result = outcome]
    /\ UNCHANGED <<processing_status, processing_lock, KOMOOTGPX_AVAILABLE, job, Rest>>

\* time.sleep(sleep_time), then the next round of the loop.
r_sleep ==
    /\ r_state.pc = "sleep"
    /\ r_state' = [r_state EXCEPT
                     !.pc = "for",
                     !.sleeps = Append(@, SleepTime(r_state.attempt)),
                     !.attempt = @ + 1]
    /\ UNCHANGED <<processing_status, processing_lock, KOMOOTGPX_AVAILABLE, job, Rest>>

(***************************************************************************)
(* extract_tours_from_html (app.py 539-778) keeps the first card of every  *)
(* tour id (seen_tour_ids).  A page is the sequence of the tour ids its    *)
(* links refer to; the entries the parser itself logs are left out.        *)
(***************************************************************************)
Ids == 1..MaxIds
Pages == UNION {[1..n -> Ids] : n \in 0..MaxRefs}

RECURSIVE extract_tours_from_html(_)
extract_tours_from_html(html) ==
    IF html = <<>> THEN <<>>
    ELSE LET front == extract_tours_from_html(SubSeq(html, 1, Len(html) - 1))
             tour_id == html[Len(html)]
         IN IF tour_id \in {front[i] : i \in 1..Len(front)}
            THEN front ELSE Append(front, tour_id)

\* add_log_entry(message, collections_status): the entry is appended under
\* processing_lock, the only lock add_log_entry knows (app.py 139).
LogToCollections(entry) ==
    /\ LockFree
    /\ collections_status' = add_log_entry(entry, collections_status)
    /\ access' = [object |-> "collections_status", field |-> "log",
                  lock |-> "processing_lock"]

(***************************************************************************)
(* process_url (app.py 958-976), the caller of make_request_with_retry in  *)
(* the discovery: page_tours is what it hands to the merge loop.  `result` *)
(* is a response, the error the call raised, or None.                      *)
(***************************************************************************)
\* Faulty variant: the page is parsed whatever the status code.
ProbeTours_AnyStatus(result, extracted) == extracted

ProbeTours(result, extracted) == IF result = "200" THEN extracted ELSE <<>>

ProbeLog(result) ==
    IF result \in Responses THEN "Failed to fetch URL" ELSE "Error processing URL"

\* The rest of process_url once make_request_with_retry has ended.
process_url_return(html) ==
    /\ r_state.pc \in {"returned", "raised"}
    /\ r_state.caller = "none"
    /\ r_state.result \notin Responses => html = <<>>
    /\ r_state' = [r_state EXCEPT
                     !.caller = "returned",
                     !.page_tours = ProbeTours(r_state.result,
                                               extract_tours_from_html(html))]
    /\ IF r_state.result = "200"
       THEN UNCHANGED <<collections_status, access>>
       ELSE LogToCollections(Entry(ProbeLog(r_state.result), 0, 0))
    /\ UNCHANGED <<processing_status, processing_lock, KOMOOTGPX_AVAILABLE, job,
                   d_state, collections_lock, scraper, Side>>

(***************************************************************************)
(* POST /api/collections/personal and scrape_collections_thread (app.py    *)
(* 1434-1462, 2046-2140), with GET /api/collections-status polling beside  *)
(* them.  Every assignment to a field of collections_status is made inside *)
(* `with collections_lock:`; every log entry goes through add_log_entry.   *)
(***************************************************************************)
ScraperIdle ==
    [pc |-> "idle", n |-> 0, unit |-> [c \in Colls |-> "none"],
     enhanced_collections |-> <<>>, error_msg |-> "None"]

\* with collections_lock: collections_status[...] = ...
CollWrite(status_dict) ==
    /\ collections_lock = "free"
    /\ collections_status' = status_dict
    /\ access' = [object |-> "collections_status", field |-> "fields",
                  lock |-> "collections_lock"]

ScFrame == UNCHANGED <<processing_status, processing_lock, KOMOOTGPX_AVAILABLE,
                       job, r_state, d_state, collections_lock, Side>>

scrape_personal_collections ==
    /\ scraper.pc = "idle"
    /\ CollWrite(reset_status(collections_status))
    /\ scraper' = [scraper EXCEPT !.pc = "sc_start"]
    /\ ScFrame

sc_running ==
    /\ scraper.pc = "sc_start"
    /\ CollWrite([collections_status EXCEPT !.status = "running"])
    /\ scraper' = [scraper EXCEPT !.pc = "sc_login_log"]
    /\ ScFrame

\* The positions of the thread that only log, with the entry and the
\* position that follows.
ScLogs ==
    [sc_login_log |-> <<"Logging in", "sc_login">>,
     sc_fetch_log |-> <<"Fetching collections", "sc_fetch">>,
     sc_final_log |-> <<"Collections scraping completed", "exited">>,
     sc_except    |-> <<"Error", "sc_except_set">>]

sc_log ==
    /\ scraper.pc \in DOMAIN ScLogs
    /\ LogToCollections(Entry(ScLogs[scraper.pc][1], 0, 0))
    /\ scraper' = [scraper EXCEPT !.pc = ScLogs[scraper.pc][2]]
    /\ ScFrame

\* adapter.login returns, or raises into the outer except.
sc_login ==
    /\ scraper.pc = "sc_login"
    /\ \/ /\ LogToCollections(Entry("Logged in", 0, 0))
          /\ scraper' = [scraper EXCEPT !.pc = "sc_fetch_log"]
       \/ /\ scraper' = [scraper EXCEPT !.pc = "sc_except",
                                        !.error_msg = "Komoot login failed"]
          /\ UNCHANGED <<collections_status, access>>
    /\ ScFrame

\* max_workers = min(5, len(basic_collections)) (app.py 2073).
ScraperPool == 5

\* adapter.fetch_collections returns n collections and the pool is created
\* with max_workers = min(5, n): ThreadPoolExecutor raises ValueError for 0,
\* into the outer except; otherwise all collections are submitted.
sc_fetch(n) ==
    /\ scraper.pc = "sc_fetch"
    /\ LogToCollections(Entry("Found collections", n, 0))
    /\ IF Min(ScraperPool, n) = 0
       THEN scraper' = [scraper EXCEPT
                          !.pc = "sc_except", !.n = n,
                          !.error_msg = "max_workers must be greater than 0"]
       ELSE scraper' = [scraper EXCEPT
                          !.pc = "sc_loop", !.n = n,
                          !.unit = [c \in Colls |->
                                      IF c <= n THEN "run" ELSE "none"]]
    /\ ScFrame

\* enhance_collection, in a pool thread: a log entry before and one after
\* fetch_all_tours_from_collection.
enhance_collection(c) ==
    /\ \/ /\ scraper.unit[c] = "run"
          /\ LogToCollections(Entry("Fetching complete data", c, 0))
          /\ scraper' = [scraper EXCEPT !.unit[c] = "fetching"]
       \/ /\ scraper.unit[c] = "fetching"
          /\ \E msg \in {"Successfully fetched all tours", "Using basic collection data"} :
                LogToCollections(Entry(msg, c, 0))
          /\ scraper' = [scraper EXCEPT !.unit[c] = "done"]
    /\ ScFrame

\* The as_completed loop takes a finished future and writes the progress.
sc_take(c) ==
    /\ scraper.pc = "sc_loop"
    /\ scraper.unit[c] = "done"
    /\ LET enhanced == Append(scraper.enhanced_collections, c)
       IN /\ CollWrite([collections_status EXCEPT
                          !.collections_completed = Len(enhanced),
                          !.collections_found = scraper.n,
                          !.progress = Frac(Len(enhanced), scraper.n)])
          /\ scraper' = [scraper EXCEPT !.unit[c] = "taken",
                                        !.enhanced_collections = enhanced]
    /\ ScFrame

sc_final ==
    /\ scraper.pc = "sc_loop"
    /\ \A c \in Colls : scraper.unit[c] \in {"none", "taken"}
    /\ CollWrite([collections_status EXCEPT
                    !.results = scraper.enhanced_collections,
                    !.status = "completed", !.progress = Frac(1, 1),
                    !.collections_found = scraper.n,
                    !.collections_completed = Len(scraper.enhanced_collections)])
    /\ scraper' = [scraper EXCEPT !.pc = "sc_final_log"]
    /\ ScFrame

sc_except_set ==
    /\ scraper.pc = "sc_except_set"
    /\ CollWrite([collections_status EXCEPT !.status = "error",
                                            !.error = scraper.error_msg])
    /\ scraper' = [scraper EXCEPT !.pc = "exited"]
    /\ ScFrame

\* GET /api/collections-status: the handler takes collections_lock, then
\* serialises the whole dictionary, log included, and lets the lock go.
get_collections_status ==
    /\ \/ /\ collections_lock = "free"
          /\ collections_lock' = "get_collections_status"
          /\ UNCHANGED access
       \/ /\ collections_lock = "get_collections_status"
          /\ collections_lock' = "free"
          /\ access' = [object |-> "collections_status", field |-> "all",
                        lock |-> "collections_lock"]
    /\ UNCHANGED <<processing_status, processing_lock, KOMOOTGPX_AVAILABLE,
                   job, r_state, d_state, collections_status, scraper, Side>>

(***************************************************************************)
(* fetch_all_tours_from_collection (app.py 780-1007), called by the        *)
(* scrapers with status_dict = collections_status.  The base list is what  *)
(* the adapter or the base page gave, both without repeated ids; the       *)
(* probes are the URLs ?page=2..max_pages and ?size=s for s in page_sizes  *)
(* (19 + 5 in the code).  The log entries about the collection's metadata  *)
(* (cover image, expected count) are left out.  One call is followed from  *)
(* its start to its return.                                                *)
(***************************************************************************)
page_sizes == <<50>>

\* The candidate URLs: ?page=2..max_pages, then ?size=s for every size.
UrlList(pages, sizes) ==
    [i \in 1..(pages - 1) |-> <<"page", i + 1>>] \o
    [i \in 1..Len(sizes) |-> <<"size", sizes[i]>>]

\* The list the code builds (app.py 944-953) ...
max_pages == 20
AllPageSizes == <<50, 100, 200, 300, 500>>

\* ... and the shortened list the discovery is followed with.
urls_to_try == UrlList(MaxPages, page_sizes)

Urls == 1..Len(urls_to_try)

DiscoveryIdle ==
    [pc |-> "idle", expected_count |-> 0, base |-> <<>>,
     all_tour_ids |-> {}, all_tours |-> <<>>,
     probe |-> [u \in Urls |-> "queued"],
     page_tours |-> [u \in Urls |-> <<>>],
     returned |-> "none", tours |-> <<>>, tours_count |-> 0]

IdsOf(tours) == {tours[i] : i \in 1..Len(tours)}

\* Faulty variant: the probes are sent whatever the base page gave.
NeedMore_Always(expected_count, initial_tour_count) == TRUE

\* if expected_count > initial_tour_count or expected_count == 0
NeedMore(expected_count, initial_tour_count) ==
    expected_count > initial_tour_count \/ expected_count = 0

\* Faulty variant: every tour of the page is appended.
Merge_NoCheck(st, page) ==
    [all_tour_ids |-> st.all_tour_ids \cup IdsOf(page),
     all_tours |-> st.all_tours \o page]

\* Faulty variant: only the first tour of the page is looked at.
Merge_FirstOnly(st, page) ==
    IF page = <<>> \/ page[1] \in st.all_tour_ids THEN st
    ELSE [all_tour_ids |-> st.all_tour_ids \cup {page[1]},
          all_tours |-> Append(st.all_tours, page[1])]

\* for tour in page_tours: if tour['id'] not in all_tour_ids: add, append
RECURSIVE Merge(_, _)
Merge(st, page) ==
    IF page = <<>> THEN st
    ELSE Merge(IF Head(page) \in st.all_tour_ids THEN st
               ELSE [all_tour_ids |-> st.all_tour_ids \cup {Head(page)},
                     all_tours |-> Append(st.all_tours, Head(page))],
               Tail(page))

fetch_all_tours_from_collection(html, expected_count) ==
    /\ d_state.pc = "idle"
    /\ LET tours == extract_tours_from_html(html)
       IN d_state' = [DiscoveryIdle EXCEPT
                        !.pc = IF NeedMore(expected_count, Len(tours))
                               THEN "need" ELSE "final",
                        !.expected_count = expected_count,
                        !.base = tours,
                        !.all_tour_ids = IdsOf(tours),
                        !.all_tours = tours]
    /\ LogToCollections(Entry("Fetching collection page directly", 0, 0))
    /\ UNCHANGED <<processing_status, processing_lock, KOMOOTGPX_AVAILABLE, job,
                   r_state, collections_lock, scraper, Side>>

\* The collection id cannot be read from the URL, the adapter finds no
\* collection, or the base request raises: None is returned.
fd_none ==
    /\ d_state.pc = "idle"
    /\ d_state' = [DiscoveryIdle EXCEPT !.pc = "returned", !.returned = "None"]
    /\ LogToCollections(Entry("Error fetching all tours from collection", 0, 0))
    /\ UNCHANGED <<processing_status, processing_lock, KOMOOTGPX_AVAILABLE, job,
                   r_state, collections_lock, scraper, Side>>

fd_need ==
    /\ d_state.pc = "need"
    /\ d_state' = [d_state EXCEPT !.pc = "probing"]
    /\ LogToCollections(Entry("Need more tours", 0, 0))
    /\ UNCHANGED <<processing_status, processing_lock, KOMOOTGPX_AVAILABLE, job,
                   r_state, collections_lock, scraper, Side>>

\* A pool thread runs process_url for URL u; `result` is what its
\* make_request_with_retry(url, headers, max_retries=2) ended with.
process_url(u, result, html) ==
    /\ d_state.pc = "probing"
    /\ d_state.probe[u] = "queued"
    /\ result \notin Responses => html = <<>>
    /\ d_state' = [d_state EXCEPT
                     !.probe[u] = "done",
                     !.page_tours[u] = ProbeTours(result,
                                                  extract_tours_from_html(html))]
    /\ IF result = "200"
       THEN UNCHANGED <<collections_status, access>>
       ELSE LogToCollections(Entry(ProbeLog(result), 0, u))
    /\ UNCHANGED <<processing_status, processing_lock, KOMOOTGPX_AVAILABLE, job,
                   r_state, collections_lock, scraper, Side>>

\* Faulty variant: the future is consumed and its tours are dropped.
fd_merge_skip(u) ==
    /\ d_state.pc = "probing"
    /\ d_state.probe[u] = "done"
    /\ d_state' = [d_state EXCEPT !.probe[u] = "merged"]
    /\ UNCHANGED <<processing_status, processing_lock, KOMOOTGPX_AVAILABLE, job,
                   r_state, collections_status, collections_lock, scraper, access, Side>>

\* One round of `for future in as_completed(future_to_url)` (app.py 982-994).
fd_merge(u) ==
    /\ d_state.pc = "probing"
    /\ d_state.probe[u] = "done"
    /\ LET st == Merge([all_tour_ids |-> d_state.all_tour_ids,
                        all_tours |-> d_state.all_tours],
                       d_state.page_tours[u])
       IN /\ d_state' = [d_state EXCEPT !.probe[u] = "merged",
                                        !.all_tour_ids = st.all_tour_ids,
                                        !.all_tours = st.all_tours]
          /\ IF Len(st.all_tours) > Len(d_state.all_tours)
             THEN LogToCollections(Entry("Found new tours", 0, u))
             ELSE UNCHANGED <<collections_status, access>>
    /\ UNCHANGED <<processing_status, processing_lock, KOMOOTGPX_AVAILABLE, job,
                   r_state, collections_lock, scraper, Side>>

\* collection['tours'] = all_tours; collection['tours_count'] = len(all_tours)
fd_return ==
    /\ \/ d_state.pc = "final"
       \/ d_state.pc = "probing" /\ \A u \in Urls : d_state.probe[u] = "merged"
    /\ d_state' = [d_state EXCEPT !.pc = "returned", !.returned = "collection",
                                  !.tours = d_state.all_tours,
                                  !.tours_count = Len(d_state.all_tours)]
    /\ LogToCollections(Entry("Total tours found for collection", 0, 0))
    /\ UNCHANGED <<processing_status, processing_lock, KOMOOTGPX_AVAILABLE, job,
                   r_state, collections_lock, scraper, Side>>

(***************************************************************************)
(* add_log_entry (app.py 135-143) under a thread that does nothing but     *)
(* log: its n-th call on a dictionary appends entry number n.              *)
(***************************************************************************)
MaxAppends == 205

Dicts == {"processing_status", "collections_status"}

WriterIdle == [d \in Dicts |-> 0]

log_entry(d) ==
    /\ writer[d] < MaxAppends
    /\ writer' = [writer EXCEPT ![d] = @ + 1]
    /\ LockFree
    /\ IF d = "processing_status"
       THEN /\ processing_status' =
                 add_log_entry(Entry("entry", writer[d] + 1, 0), processing_status)
            /\ UNCHANGED <<collections_status, access>>
       ELSE /\ LogToCollections(Entry("entry", writer[d] + 1, 0))
            /\ UNCHANGED processing_status
    /\ UNCHANGED <<processing_lock, KOMOOTGPX_AVAILABLE, job, r_state, d_state,
                   collections_lock, scraper, f_state, adapter, thread>>

\* `with lock: reset_status(status_dict)`, as every start endpoint does.
log_reset(d) ==
    /\ writer[d] > 0
    /\ writer' = [writer EXCEPT ![d] = 0]
    /\ IF d = "processing_status"
       THEN /\ LockFree
            /\ processing_status' = reset_status(processing_status)
            /\ UNCHANGED <<collections_status, access>>
       ELSE /\ CollWrite(reset_status(collections_status))
            /\ UNCHANGED processing_status
    /\ UNCHANGED <<processing_lock, KOMOOTGPX_AVAILABLE, job, r_state, d_state,
                   collections_lock, scraper, f_state, adapter, thread>>

(***************************************************************************)
(* KomootAdapter.fetch_tour (komoot_adapter.py 246-296).  `requests` counts *)
(* the API requests the call has sent.  In anonymous mode the request is   *)
(* sent with critical=False, so __send_request hands back the response     *)
(* whatever its status, or None when the request raised (109-139).         *)
(***************************************************************************)
MaxFetchRetries == 3
MaxRequests == 5

FetchIdle ==
    [pc |-> "idle", retries |-> 0, anonymous |-> FALSE, attempt |-> 0,
     requests |-> 0]

\* What the service does with one API request: a 200 with a JSON body, a
\* 200 whose body is not JSON, another status, or no response at all.
ApiOutcomes == {"json", "not_json", "status", "no_response"}

FetchFrame ==
    UNCHANGED <<processing_status, processing_lock, KOMOOTGPX_AVAILABLE, job,
                r_state, d_state, collections_status, collections_lock,
                scraper, access, writer, adapter, thread>>

fetch_tour(retries, anonymous) ==
    /\ f_state.pc = "idle"
    /\ f_state' = [FetchIdle EXCEPT !.pc = "while", !.retries = retries,
                                    !.anonymous = anonymous]
    /\ FetchFrame

\* while attempt < retries: ... ; after the loop: raise Exception(...)
ft_while ==
    /\ f_state.pc = "while"
    /\ f_state' = [f_state EXCEPT !.pc = IF f_state.attempt < f_state.retries
                                         THEN "request" ELSE "raised"]
    /\ FetchFrame

\* except Exception: attempt += 1; time.sleep(1)
FetchExcept == [f_state EXCEPT !.pc = "while", !.attempt = @ + 1,
                               !.requests = @ + 1]

ft_request(outcome) ==
    /\ f_state.pc = "request"
    /\ f_state.requests < MaxRequests
    /\ f_state' =
         IF outcome = "json"
         THEN [f_state EXCEPT !.pc = "returned", !.requests = @ + 1]
         ELSE IF outcome = "not_json" \/ ~f_state.anonymous
         THEN FetchExcept
         ELSE [f_state EXCEPT !.pc = "scrape", !.requests = @ + 1]
    /\ FetchFrame

\* tour_data = self._scrape_tour_page(tour_id); if tour_data: return it.
\* Otherwise the try block ends and the loop goes round.
ft_scrape(tour_data) ==
    /\ f_state.pc = "scrape"
    /\ f_state' = [f_state EXCEPT !.pc = IF tour_data THEN "returned" ELSE "while"]
    /\ FetchFrame

(***************************************************************************)
(* One KomootAdapter shared by the pool workers of a job (app.py           *)
(* 1817-1831, 2521-2538).  Worker w handles tour w: make_gpx stores        *)
(* last_tour, then last_filename (komoot_adapter.py 1430, 1449); back in   *)
(* the worker, get_last_filename and get_last_tour read them (1959-1965).  *)
(***************************************************************************)
MaxWorkers == 3
Workers == 1..MaxWorkers

AdapterIdle ==
    [last_filename |-> 0, last_tour |-> 0,
     pc |-> [w \in Workers |-> "idle"],
     filename |-> [w \in Workers |-> 0],
     tour_data |-> [w \in Workers |-> 0]]

AdapterFrame ==
    UNCHANGED <<processing_status, processing_lock, KOMOOTGPX_AVAILABLE, job,
                r_state, d_state, collections_status, collections_lock,
                scraper, access, writer, f_state, thread>>

make_gpx(w) ==
    /\ \/ /\ adapter.pc[w] = "idle"
          /\ adapter' = [adapter EXCEPT !.pc[w] = "make_gpx", !.last_tour = w]
       \/ /\ adapter.pc[w] = "make_gpx"
          /\ adapter' = [adapter EXCEPT !.pc[w] = "made", !.last_filename = w]
    /\ AdapterFrame

get_last_filename(w) ==
    /\ adapter.pc[w] = "made"
    /\ adapter' = [adapter EXCEPT !.pc[w] = "named",
                                  !.filename[w] = adapter.last_filename]
    /\ AdapterFrame

get_last_tour(w) ==
    /\ adapter.pc[w] = "named"
    /\ adapter' = [adapter EXCEPT !.pc[w] = "done",
                                  !.tour_data[w] = adapter.last_tour]
    /\ AdapterFrame

(***************************************************************************)
(* The two status locks seen alone (app.py 85-86).  A thread is reduced to *)
(* the lock operations of one of its paths: `with lock:` is an acquire and *)
(* a release of that lock, and a call of add_log_entry is an acquire and a *)
(* release of processing_lock whatever dictionary it logs to (app.py       *)
(* 135-143).  threading.Lock is not reentrant: an acquire waits until the  *)
(* lock is free, also when the waiting thread is the one that holds it.    *)
(* Between two lock operations a thread does work that takes no lock.      *)
(***************************************************************************)
ThreadNames ==
    <<"get_status", "process_tours", "process_collection",
      "scrape_collections_thread", "get_collections_status">>

Threads == 1..Len(ThreadNames)

ThreadOf(name) == CHOOSE th \in Threads : ThreadNames[th] = name

\* `with lock:` at the given line of app.py.
WithLock(lock, line) ==
    <<[op |-> "acquire", lock |-> lock, by |-> "with", line |-> line],
      [op |-> "release", lock |-> lock, by |-> "with", line |-> line]>>

\* add_log_entry(message, status_dict) called at the given line.
LogCall(line) ==
    <<[op |-> "acquire", lock |-> "processing_lock", by |-> "add_log_entry",
       line |-> line],
      [op |-> "release", lock |-> "processing_lock", by |-> "add_log_entry",
       line |-> line]>>

\* The progress block of process_tours with its log call moved inside the
\* `with processing_lock:` block.
process_tours_locks_nested ==
    { WithLock("processing_lock", 1743) \o LogCall(1751)
        \o <<WithLock("processing_lock", 1882)[1]>> \o LogCall(1888)
        \o <<WithLock("processing_lock", 1882)[2]>>
        \o WithLock("processing_lock", 1893) \o LogCall(1904) }

\* process_tours, all tours: the normal path with one finished tour, and
\* the path of a failed login into the outer except.  Of a run of log
\* calls only the first is kept, and of the blocks that set the counters
\* before the loop only the first.
process_tours_locks ==
    { WithLock("processing_lock", 1743) \o LogCall(1751)
        \o WithLock("processing_lock", 1882) \o LogCall(1888)
        \o WithLock("processing_lock", 1893) \o LogCall(1904),
      WithLock("processing_lock", 1743)
        \o LogCall(2040) \o WithLock("processing_lock", 2042) }

\* One collection of a collection download with one tour, and a collection
\* whose setup raises.
process_collection_locks ==
    { LogCall(2427) \o WithLock("processing_lock", 2600),
      LogCall(2714) }

\* The personal collections scraper with one collection, and its outer
\* except after a failure before the first block.
scrape_collections_thread_locks ==
    { WithLock("collections_lock", 2049) \o LogCall(2055)
        \o WithLock("collections_lock", 2111)
        \o WithLock("collections_lock", 2120) \o LogCall(2127),
      LogCall(2136) \o WithLock("collections_lock", 2138) }

Paths(th) ==
    CASE ThreadNames[th] = "get_status" -> {WithLock("processing_lock", 1199)}
      [] ThreadNames[th] = "process_tours" -> process_tours_locks
      [] ThreadNames[th] = "process_collection" -> process_collection_locks
      [] ThreadNames[th] = "scrape_collections_thread" ->
             scrape_collections_thread_locks
      [] ThreadNames[th] = "get_collections_status" ->
             {WithLock("collections_lock", 1535)}

ThreadsIdle == [th \in Threads |-> [path |-> <<>>, at |-> 0]]

\* The lock operation a thread is at, if it has one left.
AtOp(th) == thread[th].at \in 1..Len(thread[th].path)

LockOp(th) == thread[th].path[thread[th].at]

Holds(th, lock) ==
    IF lock = "processing_lock"
    THEN processing_lock = <<th, 0>>
    ELSE collections_lock = ThreadNames[th]

LocksFrame ==
    UNCHANGED <<processing_status, KOMOOTGPX_AVAILABLE, job, r_state, d_state,
                collections_status, scraper, access, writer, f_state, adapter>>

\* The thread is started and takes one of its paths.
thread_start(th) ==
    /\ thread[th].at = 0
    /\ \E path \in Paths(th) :
         thread' = [thread EXCEPT ![th] = [path |-> path, at |-> 1]]
    /\ UNCHANGED <<processing_lock, collections_lock>>
    /\ LocksFrame

\* lock.acquire(): returns once the lock is free.
lock_acquire(th) ==
    /\ AtOp(th)
    /\ LockOp(th).op = "acquire"
    /\ IF LockOp(th).lock = "processing_lock"
       THEN /\ processing_lock = NoThread
            /\ processing_lock' = <<th, 0>>
            /\ UNCHANGED collections_lock
       ELSE /\ collections_lock = "free"
            /\ collections_lock' = ThreadNames[th]
            /\ UNCHANGED processing_lock
    /\ thread' = [thread EXCEPT ![th].at = @ + 1]
    /\ LocksFrame

\* lock.release(), at the end of the `with` block.
lock_release(th) ==
    /\ AtOp(th)
    /\ LockOp(th).op = "release"
    /\ IF LockOp(th).lock = "processing_lock"
       THEN /\ processing_lock' = NoThread
            /\ UNCHANGED collections_lock
       ELSE /\ collections_lock' = "free"
            /\ UNCHANGED processing_lock
    /\ thread' = [thread EXCEPT ![th].at = @ + 1]
    /\ LocksFrame

ThreadStep(th) == thread_start(th) \/ lock_acquire(th) \/ lock_release(th)

(***************************************************************************)
(* The specifications.                                                     *)
(***************************************************************************)
Init ==
    /\ processing_status = IdleStatus
    /\ processing_lock = NoThread
    /\ KOMOOTGPX_AVAILABLE \in BOOLEAN
    /\ job = [j \in Jobs |-> NoJob]
    /\ r_state = RetryIdle
    /\ d_state = DiscoveryIdle
    /\ collections_status = IdleStatus
    /\ collections_lock = "free"
    /\ scraper = ScraperIdle
    /\ writer = WriterIdle
    /\ f_state = FetchIdle
    /\ adapter = AdapterIdle
    /\ thread = ThreadsIdle
    /\ access = [object |-> "none", field |-> "none", lock |-> "none"]

\* The client of Spec starts a job only when no job is in flight.
StartJob ==
    /\ Quiescent
    /\ \E j \in Jobs :
         \/ \E tour_selection \in {"all", "single"}, anonymous \in BOOLEAN,
               chunk_size \in ChunkSizes, chunk_start \in ChunkStarts :
              start_processing(j, tour_selection, anonymous, chunk_size, chunk_start)
         \/ \E ncolls \in Colls, ntours \in CollectionInputs :
              download_collection_tours(j, ncolls, ntours)

HandlerStep(j) ==
    \/ sp_log(j) \/ sp_kgpx(j) \/ sp_kgpx_log(j) \/ sp_download_ok(j)
    \/ sp_download_fail(j) \/ sp_login_ok(j) \/ sp_login_fail(j)
    \/ sp_result(j) \/ sp_done_log(j)

AllToursStep(j) ==
    \/ pt_running(j) \/ pt_login_log(j) \/ pt_login_ok(j) \/ pt_login_fail(j)
    \/ pt_mkdir(j) \/ pt_select(j) \/ pt_fetch_fail(j)
    \/ \E n \in 0..MaxTours : pt_fetch_ok(j, n)
    \/ pt_found_log(j) \/ pt_chunk_log(j) \/ pt_chunk_next(j) \/ pt_submit(j)
    \/ \E t \in Tours : \/ process_single_tour_ok(j, t)
                        \/ process_single_tour_fail(j, t)
                        \/ pt_take(j, t)
    \/ pt_loop_log(j) \/ pt_final(j) \/ pt_final_log(j)
    \/ pt_except(j) \/ pt_except_set(j)

SingleTourStep(j) ==
    \/ ps_init(j) \/ ps_dl_log(j) \/ ps_download_ok(j) \/ ps_download_fail(j)
    \/ ps_result(j) \/ ps_done_log(j) \/ ps_error_set(j)

CollectionStep(j) ==
    \/ ct_running(j) \/ ct_mkdir_fail(j) \/ ct_found(j) \/ ct_log(j)
    \/ ct_submit(j) \/ ct_loop_log(j) \/ ct_final(j) \/ ct_final_log(j)
    \/ ct_except(j) \/ ct_except_set(j)
    \/ \E c \in Colls :
         \/ ct_take(j, c) \/ pc_start(j, c) \/ pc_setup_ok(j, c)
         \/ pc_setup_fail(j, c) \/ pc_except(j, c) \/ pc_store(j, c)
         \/ pc_progress(j, c) \/ pc_completed(j, c) \/ pc_csv(j, c)
         \/ \E t \in Tours : \/ process_tour_ok(j, c, t)
                             \/ process_tour_fail(j, c, t)
                             \/ pc_take(j, c, t)

Next ==
    \/ StartJob
    \/ \E j \in Jobs : \/ HandlerStep(j) \/ AllToursStep(j)
                       \/ SingleTourStep(j) \/ CollectionStep(j)

Spec == Init /\ [][Next]_vars

NextRetry ==
    \/ \E max_retries \in 0..MaxRetriesArg : make_request_with_retry(max_retries)
    \/ r_for
    \/ \E outcome \in Responses \cup NetworkErrors \cup OtherErrors : r_get(outcome)
    \/ r_sleep
    \/ \E html \in Pages : process_url_return(html)

SpecRetry == Init /\ [][NextRetry]_vars

NextDiscovery ==
    \/ \E html \in Pages, expected_count \in 0..MaxExpected :
         fetch_all_tours_from_collection(html, expected_count)
    \/ fd_none
    \/ fd_need
    \/ \E u \in Urls, result \in Responses \cup NetworkErrors, html \in Pages :
         process_url(u, result, html)
    \/ \E u \in Urls : fd_merge(u)
    \/ fd_return

SpecDiscovery == Init /\ [][NextDiscovery]_vars

\* The discovery over pages of at most one tour link.
ShortPages == UNION {[1..n -> Ids] : n \in 0..1}

NextDiscoveryShort ==
    \/ \E html \in ShortPages, expected_count \in 0..MaxExpected :
         fetch_all_tours_from_collection(html, expected_count)
    \/ fd_none
    \/ fd_need
    \/ \E u \in Urls, result \in Responses \cup NetworkErrors, html \in ShortPages :
         process_url(u, result, html)
    \/ \E u \in Urls : fd_merge(u)
    \/ fd_return

\* Every request has a timeout (app.py 268-272) and the pool runs every
\* submitted probe: a step that can be taken is taken.
SpecDiscoveryFair ==
    Init /\ [][NextDiscoveryShort]_vars /\ WF_vars(NextDiscoveryShort)

(***************************************************************************)
(* A client that does not wait.  Neither start_processing (app.py          *)
(* 1049-1194) nor clear_results (app.py 1210-1215) looks at                *)
(* processing_status['status']: both act whatever the tracker shows.       *)
(***************************************************************************)
\* POST /api/clear
clear_results ==
    /\ LockFree
    /\ processing_status' = [processing_status EXCEPT !.results = <<>>]
    /\ UNCHANGED <<processing_lock, KOMOOTGPX_AVAILABLE, job, r_state, Rest>>

\* The chunk size the impatient client asks for in an all-tours request.
OverlapChunk == 1

\* Where an earlier job stands when the second request arrives: in its
\* as_completed loop, with its workers submitted.
OverlapPoints == {"pt_loop"}

\* POST /api/start, sent when no job is in flight or while one is in its loop.
StartOverlapping ==
    /\ \/ Quiescent
       \/ \E i \in Jobs : job[i].pc \in OverlapPoints
    /\ \E j \in Jobs, tour_selection \in {"all", "single"}, anonymous \in BOOLEAN :
         start_processing(j, tour_selection, anonymous,
                          IF tour_selection = "all" THEN OverlapChunk ELSE 0, 0)

NextOverlap ==
    \/ StartOverlapping
    \/ clear_results
    \/ \E j \in Jobs : \/ HandlerStep(j) \/ AllToursStep(j) \/ SingleTourStep(j)

SpecOverlap == Init /\ [][NextOverlap]_vars

NextLog == \E d \in Dicts : log_entry(d) \/ log_reset(d)

SpecLog == Init /\ [][NextLog]_vars

NextFetchTour ==
    \/ \E retries \in 0..MaxFetchRetries, anonymous \in BOOLEAN :
         fetch_tour(retries, anonymous)
    \/ ft_while
    \/ \E outcome \in ApiOutcomes : ft_request(outcome)
    \/ \E tour_data \in BOOLEAN : ft_scrape(tour_data)

SpecFetchTour == Init /\ [][NextFetchTour]_vars

NextAdapter ==
    \E w \in Workers : make_gpx(w) \/ get_last_filename(w) \/ get_last_tour(w)

SpecAdapter == Init /\ [][NextAdapter]_vars

NextLocks == \E th \in Threads : ThreadStep(th)

\* Every thread that can take a step is scheduled again.
SpecLocks ==
    Init /\ [][NextLocks]_vars /\ \A th \in Threads : WF_vars(ThreadStep(th))

NextScraper ==
    \/ scrape_personal_collections
    \/ sc_running \/ sc_log \/ sc_login
    \/ \E n \in 0..MaxColls : sc_fetch(n)
    \/ \E c \in Colls : enhance_collection(c) \/ sc_take(c)
    \/ sc_final \/ sc_except_set
    \/ get_collections_status

SpecScraper == Init /\ [][NextScraper]_vars

(***************************************************************************)
(* Vocabulary of the claims.  A job's record keeps its arguments and its   *)
(* locals after its thread has ended (pc "exited").                        *)
(***************************************************************************)
NormalExit(j) == job[j].pc = "exited" /\ job[j].error_msg = "None"

\* The tour units the job dispatched, as <<collection, tour>> (collection 0
\* in an all-tours job), and those whose download failed.
Units(j) ==
    IF job[j].kind = "all"
    THEN {<<0, t>> : t \in {u \in Tours : job[j].unit[u] # "none"}}
    ELSE {<<c, t>> : c \in Colls, t \in Tours} \cap
         {u \in Colls \X Tours : job[j].cunit[u[1]][u[2]] # "none"}

UnitState(j, u) == IF u[1] = 0 THEN job[j].unit[u[2]] ELSE job[j].cunit[u[1]][u[2]]

FailedUnits(j) == {u \in Units(j) : UnitState(j, u) \in {"fail", "taken_fail"}}

Range(seq) == {seq[i] : i \in 1..Len(seq)}

CountLog(msg, u) ==
    Cardinality({i \in 1..Len(processing_status.log) :
                   processing_status.log[i] = Entry(msg, u[1], u[2])})

CountResults(u) ==
    Cardinality({i \in 1..Len(processing_status.results) :
                   processing_status.results[i] = u})

\* A step that starts a job (the reset of start_processing or of
\* download_collection_tours).
IsStart == Quiescent /\ ~Quiescent'

(***************************************************************************)
(* C1.  Progress monotonicity: within one job run, two successive status   *)
(* polls never see progress or tours_completed decrease.  A poll may fall  *)
(* before and after any step, so the claim says that no step of a run      *)
(* lowers either value (the step that starts a run, which resets both, is  *)
(* the only one exempt).                                                   *)
(***************************************************************************)
C1_ProgressMonotone ==
    [][~IsStart =>
         /\ FracLeq(get_status.progress, get_status'.progress)
         /\ get_status.tours_completed <= get_status'.tours_completed]_vars

\* The job has written its final status and did not end in an except.
Final(j) ==
    /\ job[j].pc \in {"pt_final_log", "ct_final_log", "sp_done_log",
                      "ps_done_log", "exited"}
    /\ job[j].error_msg = "None"

\* The final state the chunk rule of section 4.4 gives job j.
ChunkRuleStatus(j) ==
    IF /\ job[j].kind = "all"
       /\ job[j].chunk_size > 0
       /\ job[j].chunk_start + job[j].chunk_size < job[j].tours
    THEN "chunk_completed" ELSE "completed"

(***************************************************************************)
(* C2.  An all-tours job with chunk {start, size}, size > 0, over N tours  *)
(* with start + size < N ends in chunk_completed with next_chunk =         *)
(* start + size, and with tours_completed = size when every download       *)
(* succeeds.  (A job whose login or listing fails ends in error: C8.)      *)
(***************************************************************************)
C2_ChunkCompleted ==
    \A j \in Jobs :
       ( /\ job[j].kind = "all"
         /\ Final(j)
         /\ job[j].chunk_size > 0
         /\ job[j].chunk_start + job[j].chunk_size < job[j].tours )
       => /\ processing_status.status = "chunk_completed"
          /\ processing_status.next_chunk = job[j].chunk_start + job[j].chunk_size
          /\ FailedUnits(j) = {} =>
                processing_status.tours_completed = job[j].chunk_size

\* N = 3, start = 0, size = 2, every download succeeded.
C2_Witness ==
    \E j \in Jobs :
       /\ job[j].kind = "all" /\ NormalExit(j)
       /\ job[j].tours = 3 /\ job[j].chunk_start = 0 /\ job[j].chunk_size = 2
       /\ FailedUnits(j) = {}
       /\ processing_status.status = "chunk_completed"
       /\ processing_status.next_chunk = 2
       /\ processing_status.tours_completed = 2

(***************************************************************************)
(* C3 as claimed.  An all-tours job over N tours with start + size >= N,   *)
(* or with no chunking (chunk size 0), ends in completed with              *)
(* next_chunk = N.                                                         *)
(***************************************************************************)
C3_CompletedNextIsN ==
    \A j \in Jobs :
       ( /\ job[j].kind = "all"
         /\ Final(j)
         /\ \/ job[j].chunk_size = 0
            \/ job[j].chunk_start + job[j].chunk_size >= job[j].tours )
       => /\ processing_status.status = "completed"
          /\ processing_status.next_chunk = job[j].tours

(***************************************************************************)
(* C3 as amended.  With a chunk size > 0 and start + size >= N the job     *)
(* ends in completed with next_chunk = N (and tours_completed = N - start  *)
(* when start <= N and every download succeeds).  With no chunking the job *)
(* ends in completed too, but next_chunk is never written: it stays 0, and *)
(* tours_completed = N when every download succeeds.                       *)
(***************************************************************************)
C3_CompletedAmended ==
    \A j \in Jobs :
       (job[j].kind = "all" /\ Final(j)) =>
          /\ ( job[j].chunk_size > 0
               /\ job[j].chunk_start + job[j].chunk_size >= job[j].tours )
             => /\ processing_status.status = "completed"
                /\ processing_status.next_chunk = job[j].tours
                /\ (FailedUnits(j) = {} /\ job[j].chunk_start <= job[j].tours)
                      => processing_status.tours_completed =
                            job[j].tours - job[j].chunk_start
          /\ job[j].chunk_size = 0
             => /\ processing_status.status = "completed"
                /\ processing_status.next_chunk = 0
                /\ FailedUnits(j) = {}
                      => processing_status.tours_completed = job[j].tours

\* N = 3, start = 2, size = 2: completed, next_chunk 3, one tour done.
C3_Witness ==
    \E j \in Jobs :
       /\ job[j].kind = "all" /\ NormalExit(j)
       /\ job[j].tours = 3 /\ job[j].chunk_start = 2 /\ job[j].chunk_size = 2
       /\ FailedUnits(j) = {}
       /\ processing_status.status = "completed"
       /\ processing_status.next_chunk = 3
       /\ processing_status.tours_completed = 1

(***************************************************************************)
(* C4.  Resume preserves history: a start request that resumes a chunked   *)
(* run (the status shows chunk_completed and the request's chunk start is  *)
(* the next_chunk shown) does not reinitialise the tracker: the results    *)
(* and the log entries of the previous chunk are still there after it.     *)
(***************************************************************************)
IsPrefix(old, new) ==
    Len(old) <= Len(new) /\ SubSeq(new, 1, Len(old)) = old

C4_ResumeKeepsHistory ==
    [][\A j \in Jobs :
         ( /\ IsStart
           /\ job'[j].pc = "sp_log"
           /\ job'[j].chunk_start > 0
           /\ processing_status.status = "chunk_completed"
           /\ job'[j].chunk_start = processing_status.next_chunk )
         => /\ IsPrefix(processing_status.results, processing_status'.results)
            /\ IsPrefix(processing_status.log, processing_status'.log)]_vars

(***************************************************************************)
(* Tour-level failure isolation, the part C5 and its amendment share: at   *)
(* the end of the job every dispatched unit has been processed, a failed   *)
(* unit has no entry in results and exactly one error entry in the log,    *)
(* and every unit that succeeded has its result in results.                *)
(***************************************************************************)
UnitsIsolated(j) ==
    \A u \in Units(j) :
       /\ UnitState(j, u) \in {"taken_ok", "taken_fail"}
       /\ UnitState(j, u) = "taken_fail"
             => /\ CountResults(u) = 0
                /\ CountLog("Error processing tour", u) = 1
       /\ UnitState(j, u) = "taken_ok"
             => /\ CountResults(u) = 1
                /\ CountLog("Error processing tour", u) = 0

(***************************************************************************)
(* C5 as claimed.  When the processing of one tour raises, the exception   *)
(* is caught and logged once, the tour adds no result, its siblings are    *)
(* still processed, and the job ends in state completed.                   *)
(***************************************************************************)
C5_TourFailureIsolated ==
    \A j \in Jobs :
       ( /\ job[j].kind \in {"all", "collections"}
         /\ Final(j)
         /\ FailedUnits(j) # {} )
       => /\ UnitsIsolated(j)
          /\ processing_status.status = "completed"

(***************************************************************************)
(* C5 as amended.  In an all-tours or collection-download job, when the    *)
(* processing of one tour raises, the exception is caught and logged once, *)
(* the tour adds no result, its siblings are still processed, and the job  *)
(* ends in the state it would have ended in without the failure:           *)
(* completed, or chunk_completed for an all-tours chunk with               *)
(* start + size < N; never error.                                          *)
(***************************************************************************)
C5_TourFailureIsolatedAmended ==
    \A j \in Jobs :
       ( /\ job[j].kind \in {"all", "collections"}
         /\ Final(j)
         /\ FailedUnits(j) # {} )
       => /\ UnitsIsolated(j)
          /\ processing_status.status = ChunkRuleStatus(j)
          /\ processing_status.error = "None"

\* Three tours, no chunking, the second one failed.
C5_Witness ==
    \E j \in Jobs :
       /\ job[j].kind = "all" /\ NormalExit(j)
       /\ job[j].tours = 3 /\ job[j].chunk_size = 0
       /\ FailedUnits(j) = {<<0, 2>>}
       /\ Range(processing_status.results) = {<<0, 1>>, <<0, 3>>}
       /\ processing_status.status = "completed"

(***************************************************************************)
(* C6 as claimed.  Failed units still count as completed: a job of n tours *)
(* of which f fail ends in completed with n - f results, f error entries   *)
(* in the log and tours_completed = n.  (Jobs that the chunk rule ends in  *)
(* chunk_completed are left out of this statement.)                        *)
(***************************************************************************)
ErrorEntries ==
    Cardinality({i \in 1..Len(processing_status.log) :
                   processing_status.log[i].msg = "Error processing tour"})

C6_FailedCountAsCompleted ==
    \A j \in Jobs :
       ( /\ job[j].kind \in {"all", "collections"}
         /\ Final(j)
         /\ ChunkRuleStatus(j) = "completed" )
       => /\ processing_status.status = "completed"
          /\ Len(processing_status.results) =
                Cardinality(Units(j)) - Cardinality(FailedUnits(j))
          /\ ErrorEntries = Cardinality(FailedUnits(j))
          /\ processing_status.tours_completed = Cardinality(Units(j))

(***************************************************************************)
(* C7.  Collection-level failure isolation: when process_collection raises *)
(* outside any tour unit, the exception is caught (one error entry), the   *)
(* collection contributes no result, every other collection is processed   *)
(* and contributes the results of its tours, and the job ends in           *)
(* completed.                                                              *)
(***************************************************************************)
C7_CollectionFailureIsolated ==
    \A j \in Jobs :
       ( /\ job[j].kind = "collections"
         /\ Final(j)
         /\ job[j].raised # {} )
       => /\ processing_status.status = "completed"
          /\ processing_status.error = "None"
          /\ \A c \in job[j].raised :
                /\ CountLog("Error processing collection", <<c, 0>>) = 1
                /\ \A t \in Tours : CountResults(<<c, t>>) = 0
          /\ \A c \in Colls : (c <= job[j].ncolls /\ c \notin job[j].raised) =>
                /\ job[j].cpc[c] = "taken"
                /\ \A t \in Tours :
                      /\ t <= job[j].ntours[c] =>
                            job[j].cunit[c][t] \in {"taken_ok", "taken_fail"}
                      /\ job[j].cunit[c][t] = "taken_ok" =>
                            CountResults(<<c, t>>) = 1

\* Two collections of two tours: the first raised, the second delivered both.
C7_Witness ==
    \E j \in Jobs :
       /\ job[j].kind = "collections" /\ NormalExit(j)
       /\ job[j].ncolls = 2 /\ job[j].ntours[1] = 2 /\ job[j].ntours[2] = 2
       /\ job[j].raised = {1}
       /\ Range(processing_status.results) = {<<2, 1>>, <<2, 2>>}
       /\ processing_status.status = "completed"

(***************************************************************************)
(* C8.  Setup failure: when login or the tour listing fails, no tour unit  *)
(* is ever dispatched, tours_completed stays 0 and results stays empty,    *)
(* and the job ends in state error with the message in the status.         *)
(***************************************************************************)
SetupErrors == {"Komoot login failed", "Failed to fetch tours"}

C8_SetupFailure ==
    \A j \in Jobs :
       job[j].error_msg \in SetupErrors =>
          /\ job[j].pc \in {"pt_except", "pt_except_set", "exited"}
          /\ \A t \in Tours : job[j].unit[t] = "none"
          /\ job[j].results = <<>>
          /\ processing_status.tours_completed = 0
          /\ processing_status.results = <<>>
          /\ job[j].pc = "exited" =>
                /\ processing_status.status = "error"
                /\ processing_status.error = job[j].error_msg

\* An all-tours job whose login failed.
C8_Witness ==
    \E j \in Jobs :
       /\ job[j].kind = "all" /\ job[j].pc = "exited"
       /\ job[j].error_msg = "Komoot login failed"
       /\ processing_status.status = "error"
       /\ processing_status.error = "Komoot login failed"

(***************************************************************************)
(* C9.  make_request_with_retry makes at most max_retries GET attempts;    *)
(* after failed attempt k (0-indexed) that is not the last it sleeps       *)
(* exactly 2^k seconds before attempt k + 1; it returns the response of    *)
(* the first attempt that does not fail.                                   *)
(***************************************************************************)
C9_RetryBackoff ==
    LET o == r_state.outcomes
        k == Len(r_state.outcomes)
        z == r_state.sleeps
    IN /\ k <= r_state.max_retries
       /\ \A i \in 1..Len(z) : z[i] = Pow2(i - 1)
       /\ \A i \in 1..(k - 1) : o[i] \in NetworkErrors
       /\ r_state.pc \in {"for", "get"} => Len(z) = k /\ r_state.attempt = k
       /\ r_state.pc = "sleep" => Len(z) = k - 1 /\ k < r_state.max_retries
       /\ (r_state.pc = "returned" /\ k > 0) =>
             /\ o[k] \in Responses
             /\ r_state.result = o[k]
             /\ Len(z) = k - 1
       /\ (r_state.pc = "raised" /\ o[k] \in NetworkErrors) =>
             k = r_state.max_retries /\ Len(z) = k - 1

\* max_retries = 3: two connection errors, then a response, after 1s and 2s.
C9_Witness ==
    /\ r_state.pc = "returned"
    /\ r_state.max_retries = 3
    /\ r_state.outcomes = <<"ConnectionError", "ConnectionError", "200">>
    /\ r_state.sleeps = <<1, 2>>
    /\ r_state.result = "200"

(***************************************************************************)
(* C10.  When the last attempt fails with a connection or timeout error    *)
(* the call raises that error; for every max_retries the call ends by      *)
(* returning a response or by raising, never by returning nothing.         *)
(***************************************************************************)
C10_ReturnsOrRaises ==
    LET o == r_state.outcomes
        k == Len(r_state.outcomes)
    IN /\ r_state.pc = "returned" => r_state.result \in Responses
       /\ (r_state.pc \in {"returned", "raised"} /\ k > 0 /\ o[k] \notin Responses)
             => r_state.pc = "raised" /\ r_state.result = o[k]

(***************************************************************************)
(* C11.  A response with an HTTP error status is never retried:            *)
(* make_request_with_retry returns it at once - after exactly one attempt  *)
(* and no sleep when it answers the first attempt - and process_url turns  *)
(* a response that is not 200 into zero tours and returns normally.        *)
(***************************************************************************)
ErrorStatuses == Responses \ {"200"}

C11_ErrorStatusNotRetried ==
    LET o == r_state.outcomes
        k == Len(r_state.outcomes)
    IN /\ \A i \in 1..k : o[i] \in ErrorStatuses =>
             /\ i = k
             /\ r_state.pc = "returned"
             /\ r_state.result = o[i]
             /\ Len(r_state.sleeps) = k - 1
       /\ (k >= 1 /\ o[1] \in ErrorStatuses) => k = 1 /\ r_state.sleeps = <<>>
       /\ (r_state.caller = "returned" /\ r_state.result \in ErrorStatuses) =>
             r_state.page_tours = <<>>

\* A 404 answered at the first of two attempts; process_url hands on no tour.
C11_Witness ==
    /\ r_state.max_retries = 2
    /\ r_state.outcomes = <<"404">>
    /\ r_state.sleeps = <<>>
    /\ r_state.caller = "returned"
    /\ r_state.page_tours = <<>>
    /\ access.object = "collections_status"

(***************************************************************************)
(* Vocabulary of the discovery claims.                                     *)
(***************************************************************************)
NoDuplicate(tours) ==
    \A i, k \in 1..Len(tours) : i # k => tours[i] # tours[k]

\* The ids the base page and the probes consumed so far have returned.
FoundIds ==
    IdsOf(d_state.base) \cup
    UNION {IdsOf(d_state.page_tours[u]) : u \in {v \in Urls : d_state.probe[v] = "merged"}}

(***************************************************************************)
(* C12.  Dedup invariant: whatever the base page and the probes return,    *)
(* in whatever order the probes resolve, the tours list built by           *)
(* fetch_all_tours_from_collection never holds two entries with the same   *)
(* id, and in the record it returns tours_count is the length of tours.    *)
(***************************************************************************)
C12_Dedup ==
    /\ NoDuplicate(d_state.all_tours)
    /\ IdsOf(d_state.all_tours) = d_state.all_tour_ids
    /\ d_state.returned = "collection" =>
          /\ NoDuplicate(d_state.tours)
          /\ d_state.tours_count = Len(d_state.tours)

\* Both probes returned ids that the base page or the other probe had too.
C12_Witness ==
    /\ d_state.returned = "collection"
    /\ d_state.base = <<1, 2>>
    /\ d_state.page_tours[1] = <<2, 3>>
    /\ d_state.page_tours[2] = <<3, 1>>
    /\ d_state.tours_count = 3

(***************************************************************************)
(* C13.  Merge commutativity and idempotence: the set of ids merged so far *)
(* is the union of the base ids and of the ids of the probes consumed,     *)
(* whatever the order in which the probe futures completed, and merging    *)
(* the result of a consumed probe once more changes nothing.               *)
(***************************************************************************)
C13_MergeCommutes ==
    /\ IdsOf(d_state.all_tours) = FoundIds
    /\ d_state.returned = "collection" => IdsOf(d_state.tours) = FoundIds
    /\ \A u \in Urls : d_state.probe[u] = "merged" =>
          Merge([all_tour_ids |-> d_state.all_tour_ids,
                 all_tours |-> d_state.all_tours],
                d_state.page_tours[u]).all_tours = d_state.all_tours

\* The ?size probe was consumed before the ?page probe.
C13_Witness ==
    /\ d_state.returned = "collection"
    /\ d_state.base = <<1>>
    /\ d_state.page_tours[1] = <<2, 1>>
    /\ d_state.page_tours[2] = <<3, 2>>
    /\ d_state.tours = <<1, 3, 2>>

(***************************************************************************)
(* C14.  Discovery termination policy: when expected_count is known, no    *)
(* further probe result is merged once the number of distinct ids found    *)
(* has reached expected_count; when it is unknown (0), every candidate URL *)
(* is probed and consumed before the record is returned.                   *)
(***************************************************************************)
C14_StopsAtExpected ==
    [][/\ ( /\ d_state.pc = "probing"
            /\ d_state.expected_count > 0
            /\ Cardinality(d_state.all_tour_ids) >= d_state.expected_count )
          => /\ d_state'.all_tours = d_state.all_tours
             /\ \A u \in Urls : d_state'.probe[u] = "merged" =>
                                   d_state.probe[u] = "merged"
       /\ ( /\ d_state'.returned = "collection"
            /\ d_state'.expected_count = 0 )
          => \A u \in Urls : d_state'.probe[u] = "merged"]_vars

(***************************************************************************)
(* C15.  Discovery convergence: when the base page yields fewer tours than *)
(* expected_count, the record returned holds exactly the distinct ids the  *)
(* base page and the probes returned, each once, and tours_count is their  *)
(* number.                                                                 *)
(***************************************************************************)
C15_Convergence ==
    ( /\ d_state.returned = "collection"
      /\ Len(d_state.base) < d_state.expected_count )
    => /\ \A u \in Urls : d_state.probe[u] = "merged"
       /\ IdsOf(d_state.tours) = FoundIds
       /\ NoDuplicate(d_state.tours)
       /\ d_state.tours_count = Cardinality(FoundIds)

\* expected_count 3, one base tour, four refs from the probes: two new ids
\* and two repeats.
C15_Witness ==
    /\ d_state.returned = "collection"
    /\ d_state.expected_count = 3
    /\ d_state.base = <<1>>
    /\ d_state.page_tours[1] = <<1, 2>>
    /\ d_state.page_tours[2] = <<2, 3>>
    /\ d_state.tours_count = 3

(***************************************************************************)
(* C20.  An all-tours job with chunk {start, size}, size > 0, over the N   *)
(* listed tours dispatches exactly the tours at the 0-based positions      *)
(* [start, min(start + size, N)) of the listing, each once, and no tour    *)
(* outside that range; when start >= N it dispatches nothing and still     *)
(* ends in a final state.  (Tour t of the model is at position t - 1.)     *)
(***************************************************************************)
ChunkRange(j) ==
    {t \in Tours : /\ job[j].chunk_start <= t - 1
                   /\ t - 1 < job[j].chunk_start + job[j].chunk_size
                   /\ t - 1 < job[j].tours}

C20_ChunkRange ==
    \A j \in Jobs :
       (job[j].kind = "all" /\ job[j].chunk_size > 0) =>
          /\ {t \in Tours : job[j].unit[t] # "none"} \subseteq ChunkRange(j)
          /\ Final(j) =>
                /\ {t \in Tours : job[j].unit[t] \in {"taken_ok", "taken_fail"}}
                      = ChunkRange(j)
                /\ Cardinality(ChunkRange(j)) =
                      Cardinality({i \in 1..Len(processing_status.log) :
                         processing_status.log[i].msg \in
                            {"Completed tour", "Error processing tour"}})
                /\ job[j].chunk_start >= job[j].tours =>
                      /\ ChunkRange(j) = {}
                      /\ processing_status.status = "completed"
                      /\ processing_status.results = <<>>

\* N = 3, start = 1, size = 1: the second tour of the listing and no other.
C20_Witness ==
    \E j \in Jobs :
       /\ job[j].kind = "all" /\ NormalExit(j)
       /\ job[j].tours = 3 /\ job[j].chunk_start = 1 /\ job[j].chunk_size = 1
       /\ job[j].unit = <<"none", "taken_ok", "none">>
       /\ processing_status.results = << <<0, 2>> >>

(***************************************************************************)
(* C16.  A clear request issued while the tracker's status is running is   *)
(* rejected and leaves results unchanged; results are emptied only when    *)
(* no job is running.                                                      *)
(***************************************************************************)
C16_ClearRejectedWhileRunning ==
    [][(processing_status.status = "running" /\ clear_results) =>
          processing_status'.results = processing_status.results]_vars

(***************************************************************************)
(* C17.  A start request issued while the tracker's status is running is   *)
(* accepted: it reinitialises the tracker and starts a second job, the     *)
(* first job is not stopped, and both jobs keep writing status, counts     *)
(* and results into the one tracker.                                       *)
(***************************************************************************)
Started(j) == Ended(j) /\ job'[j].pc = "sp_log"

C17_StartWhileRunning ==
    [][\A j \in Jobs :
          /\ (processing_status.status = "running" /\ Started(j)) =>
                /\ processing_status' = IdleStatus
                /\ \A i \in Jobs \ {j} : job'[i] = job[i]
          /\ job'[j].completed_count # job[j].completed_count =>
                /\ processing_status'.tours_completed = job'[j].completed_count
                /\ processing_status'.results = job'[j].results
          /\ (job[j].pc = "pt_loop" /\ job'[j].pc = "pt_final_log") =>
                processing_status'.status =
                   FinalStatus(job[j].chunk_size, job[j].end_idx, job[j].tours)
      ]_vars

\* The tracker shows completed, with the first job's result, while the
\* second job has not yet marked itself running.
C17_Witness ==
    \E i, j \in Jobs :
       /\ i # j
       /\ job[i].pc = "exited" /\ job[i].results # <<>>
       /\ job[j].pc \in {"pt_start", "pt_login", "pt_fetch"}
       /\ processing_status.status \in {"completed", "chunk_completed"}
       /\ processing_status.results = job[i].results

(***************************************************************************)
(* C19.  The tracker's status is always one of idle, running,              *)
(* chunk_completed, completed, error, and changes only along               *)
(* idle -> running -> {completed | chunk_completed | error}: a final       *)
(* status is never followed by running or by another final status until a  *)
(* start request resets the tracker to idle, and chunk_completed is        *)
(* written only by an all-tours job with a positive chunk size.            *)
(***************************************************************************)
States == {"idle", "running", "chunk_completed", "completed", "error"}
FinalStates == {"completed", "chunk_completed", "error"}

StatusStep ==
    /\ processing_status'.status \in States
    /\ processing_status'.status # processing_status.status =>
          \/ processing_status.status = "idle"
             /\ processing_status'.status = "running"
          \/ processing_status.status = "running"
             /\ processing_status'.status \in FinalStates
          \/ processing_status' = IdleStatus /\ \E j \in Jobs : Started(j)
    /\ (processing_status'.status = "chunk_completed"
        /\ processing_status.status # "chunk_completed") =>
          \E j \in Jobs : /\ job'[j] # job[j]
                          /\ job[j].kind = "all" /\ job[j].chunk_size > 0

C19_StateMachine == [][StatusStep]_vars

\* A start request has been accepted while an earlier job was in flight:
\* only then is a slot above the first one taken.
Overlapped == \E j \in Jobs : j > 1 /\ job[j].kind # "none"

\* C19, amended: the status follows idle -> running -> final, as stated, as
\* long as no start request has been accepted while a job was in flight.
C19_StateMachineAmended == [][~Overlapped => StatusStep]_vars

\* A chunked all-tours job, alone, has gone idle -> running -> chunk_completed.
C19_Witness ==
    /\ ~Overlapped
    /\ job[1].kind = "all" /\ job[1].chunk_size > 0 /\ job[1].pc = "exited"
    /\ processing_status.status = "chunk_completed"

(***************************************************************************)
(* C18.  Every read and every write of every field of a status dictionary  *)
(* is made while holding that dictionary's own lock: processing_lock for   *)
(* processing_status, collections_lock for collections_status, log         *)
(* entries made by add_log_entry and the status poll included.             *)
(***************************************************************************)
C18_SingleLock ==
    /\ access.object = "processing_status" => access.lock = "processing_lock"
    /\ access.object = "collections_status" => access.lock = "collections_lock"

(***************************************************************************)
(* C21.  In a collection-download job every finished tour is recorded in   *)
(* one critical section that appends its result to results, adds one to    *)
(* tours_completed and sets progress = tours_completed / total_tours: at   *)
(* every poll progress = min(1, tours_completed / tours_found) and results *)
(* holds the results of all tours counted as completed.                    *)
(***************************************************************************)
C21_ProgressCriticalSection ==
    \A j \in Jobs :
       (/\ job[j].kind = "collections" /\ ~Ended(j)
        /\ processing_status.status = "running"
        /\ LockFree
        /\ processing_status.tours_found > 0) =>
          /\ processing_status.progress =
                Frac(Min(processing_status.tours_completed,
                         processing_status.tours_found),
                     processing_status.tours_found)
          /\ Len(processing_status.results) >= processing_status.tours_completed

(***************************************************************************)
(* C22.  results is in completion order: if tour unit A finished before    *)
(* tour unit B, A's result precedes B's in results, whether the two belong *)
(* to the same collection or to different collections of one job.          *)
(***************************************************************************)
Pos(seq, x) == CHOOSE i \in 1..Len(seq) : seq[i] = x

Done(j) == Final(j) /\ processing_status.status \in {"completed", "chunk_completed"}

OfCollection(seq, c) == SelectSeq(seq, LAMBDA u : u[1] = c)

LogOf(d) == IF d = "processing_status" THEN processing_status.log
            ELSE collections_status.log

C23_LogBounded ==
    \A d \in Dicts :
       LET log == LogOf(d)
       IN /\ Len(log) <= LogCap
          /\ Len(log) <= writer[d]
          /\ \A i \in 1..Len(log) :
                log[i] = Entry("entry", writer[d] - Len(log) + i, 0)
          /\ writer[d] < LogCap => Len(log) = writer[d]

\* The 201st entry has been appended and the oldest 101 are gone.
C23_Witness ==
    \E d \in Dicts :
       /\ writer[d] = LogCap + 1
       /\ Len(LogOf(d)) = LogKeep
       /\ LogOf(d)[1] = Entry("entry", LogCap + 2 - LogKeep, 0)

(***************************************************************************)
(* C24.  Discovery is bounded and terminates: every candidate URL is       *)
(* probed at most once, at most 24 in all (pages 2..20 and five sizes);    *)
(* none is probed when the base page already yields a known expected       *)
(* count; the call returns once every probe has resolved and been merged,  *)
(* and a probe that fails or brings nothing new does not end it early.     *)
(***************************************************************************)
C24_Bounded ==
    /\ Len(UrlList(max_pages, AllPageSizes)) = 24
    /\ \A a, b \in 1..Len(UrlList(max_pages, AllPageSizes)) :
          a # b => UrlList(max_pages, AllPageSizes)[a] # UrlList(max_pages, AllPageSizes)[b]
    /\ \A a, b \in Urls : a # b => urls_to_try[a] # urls_to_try[b]
    /\ (d_state.expected_count > 0 /\ Len(d_state.base) >= d_state.expected_count) =>
          \A u \in Urls : d_state.probe[u] = "queued"
    /\ (d_state.returned = "collection"
        /\ NeedMore(d_state.expected_count, Len(d_state.base))) =>
          \A u \in Urls : d_state.probe[u] = "merged"

C24_ProbedOnce ==
    \A u \in Urls :
       /\ d_state.probe[u] = "queued" => d_state'.probe[u] \in {"queued", "done"}
       /\ d_state.probe[u] = "done" => d_state'.probe[u] \in {"done", "merged"}
       /\ d_state.probe[u] = "merged" => d_state'.probe[u] = "merged"
       /\ d_state.probe[u] # "queued" => d_state'.page_tours[u] = d_state.page_tours[u]

C24_DiscoveryTerminates ==
    /\ []C24_Bounded
    /\ [][C24_ProbedOnce]_vars
    /\ (d_state.pc # "idle") ~> (d_state.pc = "returned")

\* A probe failed, the other one still brought a new tour, and the call
\* returned with every probe merged.
C24_Witness ==
    /\ d_state.returned = "collection"
    /\ \A u \in Urls : d_state.probe[u] = "merged"
    /\ \E u \in Urls : /\ d_state.page_tours[u] = <<>>
                       /\ \E i \in 1..Len(collections_status.log) :
                             /\ collections_status.log[i].unit = <<0, u>>
                             /\ collections_status.log[i].msg # "Found new tours"
    /\ d_state.tours_count > Len(d_state.base)

(***************************************************************************)
(* C25.  When a collection-download job reaches status completed,          *)
(* tours_completed equals the number of entries in results, for every      *)
(* interleaving of the collection workers that update the shared           *)
(* completed_tours counter.                                                *)
(***************************************************************************)
C25_CompletedMatchesResults ==
    \A j \in Jobs :
       (/\ job[j].kind = "collections" /\ Final(j)
        /\ processing_status.status = "completed") =>
          processing_status.tours_completed = Len(processing_status.results)

(***************************************************************************)
(* C26.  fetch_tour(tour_id, retries = r) terminates whatever the service  *)
(* does: it makes at most r attempts and then returns tour data or raises, *)
(* in authenticated and in anonymous mode, also when the anonymous API     *)
(* request yields nothing usable and the page scrape returns nothing.      *)
(***************************************************************************)
C26_AtMostRetriesAttempts == f_state.requests <= f_state.retries

(***************************************************************************)
(* C27.  With one KomootAdapter shared by concurrent tour workers, the     *)
(* filename and the tour data a worker stores in its result are the ones   *)
(* produced for its own tour, for every interleaving between its make_gpx  *)
(* call and its get_last_filename / get_last_tour reads.                   *)
(***************************************************************************)
C27_OwnFilename ==
    \A w \in Workers :
       /\ adapter.pc[w] \in {"named", "done"} => adapter.filename[w] = w
       /\ adapter.pc[w] = "done" => adapter.tour_data[w] = w

(***************************************************************************)
(* C28.  Every started job eventually leaves status running and reaches    *)
(* completed, chunk_completed or error, provided every collaborator call   *)
(* returns or raises.  Read on finite runs: once the handler and the       *)
(* thread of a job have ended, the tracker shows a final status.           *)
(***************************************************************************)
C28_EndedJobIsFinal ==
    \A j \in Jobs :
       job[j].pc \in {"exited", "aborted"} =>
          processing_status.status \in FinalStates


(***************************************************************************)
(* C29. The status locks cannot deadlock: no thread calls add_log_entry    *)
(* while it already holds processing_lock, no thread ever holds            *)
(* processing_lock and collections_lock at the same time, and every lock   *)
(* acquisition a thread waits at eventually succeeds.                      *)
(***************************************************************************)
Waiting(th) == AtOp(th) /\ LockOp(th).op = "acquire"

C29_NoReacquire ==
    \A th \in Threads :
       Waiting(th) => ~Holds(th, LockOp(th).lock)

C29_NeverBothLocks ==
    \A th \in Threads :
       ~(Holds(th, "processing_lock") /\ Holds(th, "collections_lock"))

C29_NoDeadlock ==
    /\ [](C29_NoReacquire /\ C29_NeverBothLocks)
    /\ \A th \in Threads : Waiting(th) ~> ~Waiting(th)

\* The scraper waits in add_log_entry for processing_lock, which
\* process_tours holds, while a status poll holds collections_lock.
C29_Witness ==
    /\ Waiting(ThreadOf("scrape_collections_thread"))
    /\ LockOp(ThreadOf("scrape_collections_thread")).by = "add_log_entry"
    /\ Holds(ThreadOf("process_tours"), "processing_lock")
    /\ Holds(ThreadOf("get_collections_status"), "collections_lock")

(***************************************************************************)
(* C30. A job whose input is empty finishes in state completed with empty  *)
(* results and no error.  For a collections scrape: once the thread has    *)
(* logged that it found zero collections and has ended, collections_status *)
(* is completed with empty results and no error.                           *)
(***************************************************************************)
FoundZeroCollections ==
    \E i \in DOMAIN collections_status.log :
       collections_status.log[i] = Entry("Found collections", 0, 0)

C30_EmptyScrapeCompletes ==
    (scraper.pc = "exited" /\ FoundZeroCollections) =>
        /\ collections_status.status = "completed"
        /\ collections_status.results = <<>>
        /\ collections_status.error = "None"

\* The same for the jobs of processing_status: an all-tours job whose
\* listing or chunk is empty, and a collection download whose collections
\* have no tours, end completed with empty results and no error.
C30_EmptyJobCompletes ==
    \A j \in Jobs :
       (/\ NormalExit(j)
        /\ \/ job[j].kind = "all" /\ Units(j) = {}
           \/ job[j].kind = "collections"
              /\ \A c \in 1..job[j].ncolls : job[j].ntours[c] = 0) =>
          /\ processing_status.status = "completed"
          /\ processing_status.results = <<>>
          /\ processing_status.error = "None"

=============================================================================
